---- MODULE Spec2Model ----
(***************************************************************************)
(* Model of the acquisition -> reliable-delivery pipeline of the ESP32     *)
(* power monitor: DataManager (buffering, retrying transmitter), the       *)
(* connectivity flag of NetworkManager and the send part of loop().        *)
(*                                                                         *)
(* A reading (PowerData) is identified by its production number 1, 2, ...  *)
(* One step of the model is one POST attempt (one iteration of the while   *)
(* loop of sendJsonToBackend, whose response is an input), the return of   *)
(* a send to its caller, or the part of loop() that runs between two       *)
(* POSTs.  The WiFi event handler runs in another task and may interleave  *)
(* anywhere.                                                               *)
(*                                                                         *)
(* The measurement side, PowerMonitor and AiProcessor, has specifications  *)
(* of its own over the same variables: SpecPM (update and setVoltage with  *)
(* a clock that wraps around), SpecRMS (the current computed from one set  *)
(* of samples) and SpecAI (the AI part of the cycles of loop()).           *)
(* SpecApp is loop() with the measurement of every cycle, SpecGate the     *)
(* timing of the cycles, SpecNet the time synchronisation of               *)
(* NetworkManager.                                                         *)
(***************************************************************************)
EXTENDS Integers, Sequences, FiniteSets, TLC

\* Capacity of the delivery buffer.  Config.h sets it to 100; the model
\* scales it down so that a full buffer and evictions are reached.
DATA_BUFFER_SIZE == 3

\* Number of POST attempts of one send.
MAX_RETRY_ATTEMPTS == 3

\* The status code that counts as success.
HTTP_CODE_OK == 200

\* Base of the retry delay, in milliseconds.
RETRY_DELAY_MS == 500

\* Number of readings produced in a run.
MaxReadings == 5

\* Responses of http.POST: the OK status, another (positive) status and a
\* (negative) transport error such as HTTPC_ERROR_CONNECTION_REFUSED.
ResponseCodes == {200, 404, -1}

Readings == 1..MaxReadings

VARIABLES
  s_connected,          \* static flag written by the WiFi event handler
  connected,            \* NetworkManager::connected, what isConnected() returns
  dataBuffer,           \* DataManager::dataBuffer
  pc,                   \* "idle": between two calls; "post": before a POST; "ret": a send is returning
  caller,               \* who called sendData: "drain" (sendBufferedData) or "direct"; "none" when idle
  inLoop,               \* TRUE while the calls are made by loop()
  data,                 \* the reading passed to sendData / bufferData by the caller (0: none)
  it,                   \* position of the range-for of sendBufferedData in dataBuffer
  failedTransmissions,  \* local of sendBufferedData
  initialSize,          \* local of sendBufferedData
  success,              \* local of sendJsonToBackend
  retryCount,           \* local of sendJsonToBackend
  retval,               \* value returned by the last sendBufferedData / sendData call
  produced,             \* number of readings produced so far
  responses,            \* history: response codes received by the running send
  delays,               \* history: arguments of delay() inside the running send
  okCount,              \* history: number of OK responses the collector gave for each reading
  evicted,              \* history: readings removed by the overflow branch of bufferData
  startBuf,             \* history: dataBuffer when the tick / sendBufferedData call began
  drainResults,         \* history: result of sendData for each reading of the running drain
  posted,               \* history: readings whose send was started in this tick, in order
  bufBefore,            \* history: dataBuffer when bufferData was last called
  recovered,            \* history: buffered readings that were accepted at the third attempt of a send
  allOk,                \* history: every POST of this tick was answered with the OK status
  tick,                 \* history: how the last tick (or call) went
  tickPosts,            \* history: number of POSTs issued so far in the last tick of loop()
  millis,               \* the value millis() returned last (a counter that wraps around)
  samples,              \* the analog samples of the last readCurrentSensor call
  calibrationFactor,    \* PowerMonitor::calibrationFactor
  currentRMS,           \* PowerMonitor::currentRMS, in microamperes
  mainVoltage,          \* PowerMonitor::mainVoltage, in volts
  powerWatts,           \* PowerMonitor::powerWatts, in microwatts
  energyKwh,            \* PowerMonitor::energyKwh, in microwatt-milliseconds
  lastEnergyCalcTime,   \* PowerMonitor::lastEnergyCalcTime
  pmOp,                 \* history: the last PowerMonitor operation
  prevEnergy,           \* history: energyKwh before the last PowerMonitor operation
  prevLast,             \* history: lastEnergyCalcTime before the last PowerMonitor operation
  pmUpdates,            \* history: number of PowerMonitor::update calls so far
  rawCurrent,           \* PowerMonitor::update: the mean square read from the sensor
  dataHistory,          \* AiProcessor::dataHistory
  powerPrediction,      \* AiProcessor::powerPrediction, a fraction <<numerator, denominator>>
  passed,               \* history: every reading passed to AiProcessor::update, in order
  seen,                 \* history: dataHistory as the last detectAnomaly call found it
  anomaly,              \* the anomaly flag of the last reading (data.anomaly)
  flags,                \* history: the anomaly flag of every reading, in order
  trend,                \* history: what the last analyzeTrend call reported
  aiOp,                 \* history: the last AiProcessor operation
  made,                 \* history: the PowerData of every reading as loop() built it, in order
  lastSendTime,         \* loop(): the value of millis() at the start of the last cycle
  sinceSend,            \* history: milliseconds that really passed since the start of the last cycle
  gap,                  \* history: milliseconds that really passed between the starts of the last two cycles
  gate,                 \* history: what the last iteration of loop() did, "cycle" or "skip"
  ntpConfigured,        \* NetworkManager::ntpConfigured
  ntpOutcome,           \* history: how the last configureNTP call ended
  synced,               \* history: some configureNTP call synchronised the time
  timestampFrom         \* history: the clock the last getTimestamp call read

\* The variables of the delivery side: NetworkManager, DataManager, loop().
deliveryVars == <<s_connected, connected, dataBuffer, pc, caller, inLoop, data, it,
                  failedTransmissions, initialSize, success, retryCount, retval,
                  produced, responses, delays, okCount, evicted, startBuf,
                  drainResults, posted, bufBefore, recovered, allOk, tick,
                  tickPosts>>

\* The variables of PowerMonitor.
powerVars == <<millis, samples, calibrationFactor, currentRMS, mainVoltage,
               powerWatts, energyKwh, lastEnergyCalcTime, pmOp, prevEnergy,
               prevLast, pmUpdates, rawCurrent>>

\* The variables of AiProcessor.
aiVars == <<dataHistory, powerPrediction, passed, seen, anomaly, flags, trend,
            aiOp>>

\* The variables of the measurement side.
measureVars == <<powerVars, aiVars, made>>

\* The variables of the gate of loop().
gateVars == <<lastSendTime, sinceSend, gap, gate>>

\* The variables of the time synchronisation of NetworkManager.
ntpVars == <<ntpConfigured, ntpOutcome, synced, timestampFrom>>

vars == <<deliveryVars, measureVars, gateVars, ntpVars>>

netVars == <<s_connected, connected>>
drainVars == <<it, failedTransmissions, initialSize>>
sendVars == <<success, retryCount, responses, delays>>

\* ---------------------------------------------------------------- DataManager

Range(seq) == {seq[i] : i \in 1..Len(seq)}

\* bufferData putting the new reading in front of the buffered ones.
bufferData_pushFront(buf, d) ==
  IF Len(buf) < DATA_BUFFER_SIZE
    THEN <<d>> \o buf
    ELSE <<d>> \o Tail(buf)

\* bufferData with the capacity test off by one.
bufferData_offByOne(buf, d) ==
  IF Len(buf) <= DATA_BUFFER_SIZE
    THEN Append(buf, d)
    ELSE Append(Tail(buf), d)

\* bufferData erasing the newest buffered reading instead of the oldest.
bufferData_eraseNewest(buf, d) ==
  IF Len(buf) < DATA_BUFFER_SIZE
    THEN Append(buf, d)
    ELSE Append(SubSeq(buf, 1, Len(buf) - 1), d)

\* bufferData discarding the new reading when the buffer is full.
bufferData_dropNew(buf, d) ==
  IF Len(buf) < DATA_BUFFER_SIZE
    THEN Append(buf, d)
    ELSE buf

\* DataManager::bufferData: the buffer after buffering d.
bufferData(buf, d) ==
  IF Len(buf) < DATA_BUFFER_SIZE
    THEN Append(buf, d)
    ELSE Append(Tail(buf), d)

\* hasBufferedData never reporting buffered readings.
hasBufferedData_never(buf) == FALSE

\* DataManager::hasBufferedData
hasBufferedData(buf) == buf # <<>>

\* Any positive status code taken for a success.
IsSuccess_positive(httpResponseCode) == httpResponseCode > 0

\* sendJsonToBackend: does this response make the attempt a success?
IsSuccess(httpResponseCode) ==
  httpResponseCode > 0 /\ httpResponseCode = HTTP_CODE_OK

\* The while loop running one attempt too many.
KeepTrying_le(succ, rc) == ~succ /\ rc <= MAX_RETRY_ATTEMPTS

\* sendJsonToBackend: the condition of the while loop.
KeepTrying(succ, rc) == ~succ /\ rc < MAX_RETRY_ATTEMPTS

\* sendJsonToBackend: is the failure that made the count rc followed by a delay?
WaitsAfter(rc) == rc < MAX_RETRY_ATTEMPTS

\* sendJsonToBackend: the delay before the next attempt.
BackoffDelay(rc) == RETRY_DELAY_MS * rc

\* sendBufferedData keeping every reading, sent or not.
KeepFailed_always(failed, d, succ) == Append(failed, d)

\* sendBufferedData putting a failed reading in front of the earlier ones.
KeepFailed_front(failed, d, succ) == IF ~succ THEN <<d>> \o failed ELSE failed

\* sendBufferedData keeping no reading.
KeepFailed_none(failed, d, succ) == failed

\* sendBufferedData keeping the readings that were sent.
KeepFailed_inverted(failed, d, succ) == IF succ THEN Append(failed, d) ELSE failed

\* sendBufferedData: failedTransmissions after the send of d returned succ.
KeepFailed(failed, d, succ) == IF ~succ THEN Append(failed, d) ELSE failed

\* The reading whose payload the running send transmits.
Sending == IF caller = "drain" THEN dataBuffer[it] ELSE data

\* The responses of a send that failed twice and was then accepted.
FailFailOk(resp) ==
  /\ Len(resp) = 3
  /\ resp[1] # HTTP_CODE_OK
  /\ resp[2] # HTTP_CODE_OK
  /\ resp[3] = HTTP_CODE_OK

\* Entry of sendJsonToBackend (through sendData).
EnterSend ==
  /\ success' = FALSE
  /\ retryCount' = 0
  /\ responses' = <<>>
  /\ delays' = <<>>
  /\ pc' = "post"

\* A call of bufferData(d) by the caller.
CallBufferData(d) ==
  /\ bufBefore' = dataBuffer
  /\ dataBuffer' = bufferData(dataBuffer, d)
  /\ evicted' = evicted \cup (Range(dataBuffer) \ Range(bufferData(dataBuffer, d)))

\* sendJsonToBackend has returned to the caller of sendData / of
\* sendBufferedData: its locals are gone.
LeaveSend ==
  /\ success' = FALSE
  /\ retryCount' = 0
  /\ responses' = <<>>
  /\ delays' = <<>>
  /\ pc' = "idle"

\* Entry of sendBufferedData with a non-empty buffer, up to its first POST.
EnterDrain ==
  /\ caller' = "drain"
  /\ it' = 1
  /\ failedTransmissions' = <<>>
  /\ initialSize' = Len(dataBuffer)
  /\ startBuf' = dataBuffer
  /\ drainResults' = <<>>
  /\ posted' = <<dataBuffer[1]>>
  /\ allOk' = TRUE
  /\ EnterSend

\* The send of the last buffered reading returned: sendBufferedData replaces
\* the buffer by the failed transmissions and returns.
FinishDrain ==
  LET failed == KeepFailed(failedTransmissions, dataBuffer[it], success)
  IN /\ failedTransmissions' = failed
     /\ dataBuffer' = failed
     /\ retval' = (Len(failed) < initialSize)
     /\ drainResults' = Append(drainResults, success)
     /\ recovered' = IF FailFailOk(responses)
                       THEN recovered \cup {dataBuffer[it]}
                       ELSE recovered

\* One iteration of the while loop of sendJsonToBackend: POST, look at the
\* response, count the failure and wait before the next attempt.
Attempt ==
  /\ pc = "post"
  /\ \E httpResponseCode \in ResponseCodes :
       LET ok == IsSuccess(httpResponseCode)
           rc == IF ok THEN retryCount ELSE retryCount + 1
       IN /\ success' = ok
          /\ retryCount' = rc
          /\ responses' = Append(responses, httpResponseCode)
          /\ delays' = IF ~ok /\ WaitsAfter(rc)
                         THEN Append(delays, BackoffDelay(rc))
                         ELSE delays
          /\ okCount' = IF httpResponseCode = HTTP_CODE_OK
                          THEN [okCount EXCEPT ![Sending] = @ + 1]
                          ELSE okCount
          /\ allOk' = (allOk /\ httpResponseCode = HTTP_CODE_OK)
          /\ pc' = IF KeepTrying(ok, rc) THEN "post" ELSE "ret"
  /\ UNCHANGED <<netVars, dataBuffer, caller, inLoop, data, drainVars, retval,
                 produced, evicted, startBuf, drainResults, posted, bufBefore,
                 recovered, tick>>
  /\ tickPosts' = IF inLoop THEN tickPosts + 1 ELSE tickPosts
  /\ UNCHANGED measureVars
  /\ UNCHANGED <<gateVars, ntpVars>>

\* A send of sendBufferedData returns and the range-for goes on to the next
\* buffered reading.
DrainNext ==
  /\ pc = "ret"
  /\ caller = "drain"
  /\ it < Len(dataBuffer)
  /\ failedTransmissions' = KeepFailed(failedTransmissions, dataBuffer[it], success)
  /\ drainResults' = Append(drainResults, success)
  /\ recovered' = IF FailFailOk(responses)
                    THEN recovered \cup {dataBuffer[it]}
                    ELSE recovered
  /\ it' = it + 1
  /\ posted' = Append(posted, dataBuffer[it + 1])
  /\ EnterSend
  /\ UNCHANGED <<netVars, dataBuffer, caller, inLoop, data, initialSize, retval,
                 produced, okCount, evicted, startBuf, bufBefore, allOk, tick>>
  /\ UNCHANGED tickPosts
  /\ UNCHANGED measureVars
  /\ UNCHANGED <<gateVars, ntpVars>>

\* ---------------------------------------------------------------- loop()

\* An iteration of loop() in which the send interval has not elapsed:
\* only networkManager.update() refreshes the connectivity.
LoopSkip ==
  /\ pc = "idle"
  /\ inLoop
  /\ connected' = s_connected
  /\ UNCHANGED <<s_connected, dataBuffer, pc, caller, inLoop, data, drainVars,
                 sendVars, retval, produced, okCount, evicted, startBuf,
                 drainResults, posted, bufBefore, recovered, allOk, tick>>
  /\ UNCHANGED tickPosts
  /\ UNCHANGED measureVars
  /\ UNCHANGED <<gateVars, ntpVars>>

\* A tick without connectivity that tries the drain all the same.
TickOffline_drains ==
  /\ pc = "idle"
  /\ inLoop
  /\ produced < MaxReadings
  /\ ~s_connected
  /\ connected' = s_connected
  /\ produced' = produced + 1
  /\ data' = produced + 1
  /\ IF hasBufferedData(dataBuffer)
       THEN /\ EnterDrain
            /\ tick' = "running"
            /\ UNCHANGED <<dataBuffer, evicted, bufBefore>>
       ELSE /\ CallBufferData(produced + 1)
            /\ startBuf' = dataBuffer
            /\ drainResults' = <<>>
            /\ posted' = <<>>
            /\ allOk' = TRUE
            /\ tick' = "offline"
            /\ UNCHANGED <<pc, caller, drainVars, sendVars>>
  /\ UNCHANGED <<s_connected, inLoop, retval, okCount, recovered>>
  /\ tickPosts' = 0

\* A tick of loop() without connectivity: networkManager.update() refreshes
\* the connectivity, a reading is produced and buffered, the tick ends.
TickOffline ==
  /\ pc = "idle"
  /\ inLoop
  /\ produced < MaxReadings
  /\ ~s_connected
  /\ connected' = s_connected
  /\ produced' = produced + 1
  /\ data' = produced + 1
  /\ CallBufferData(produced + 1)
  /\ startBuf' = dataBuffer
  /\ drainResults' = <<>>
  /\ posted' = <<>>
  /\ allOk' = TRUE
  /\ tick' = "offline"
  /\ UNCHANGED <<s_connected, pc, caller, inLoop, drainVars, sendVars, retval,
                 okCount, recovered>>
  /\ tickPosts' = 0

\* A tick of loop() without connectivity, the measurement left out.
LoopOffline ==
  /\ TickOffline
  /\ UNCHANGED measureVars
  /\ UNCHANGED <<gateVars, ntpVars>>

\* The start of a connected tick with buffered readings: loop() calls
\* sendBufferedData, which runs up to its first POST.
TickDrain ==
  /\ pc = "idle"
  /\ inLoop
  /\ produced < MaxReadings
  /\ s_connected
  /\ hasBufferedData(dataBuffer)
  /\ connected' = s_connected
  /\ produced' = produced + 1
  /\ data' = produced + 1
  /\ EnterDrain
  /\ tick' = "running"
  /\ UNCHANGED <<s_connected, dataBuffer, inLoop, retval, okCount, evicted,
                 bufBefore, recovered>>
  /\ tickPosts' = 0

\* The start of a connected tick with buffered readings, the measurement left out.
LoopDrain ==
  /\ TickDrain
  /\ UNCHANGED measureVars
  /\ UNCHANGED <<gateVars, ntpVars>>

\* The start of a connected tick with an empty buffer: loop() calls
\* sendData for the new reading.
TickDirect ==
  /\ pc = "idle"
  /\ inLoop
  /\ produced < MaxReadings
  /\ s_connected
  /\ ~hasBufferedData(dataBuffer)
  /\ connected' = s_connected
  /\ produced' = produced + 1
  /\ data' = produced + 1
  /\ caller' = "direct"
  /\ EnterSend
  /\ startBuf' = dataBuffer
  /\ drainResults' = <<>>
  /\ posted' = <<produced + 1>>
  /\ allOk' = TRUE
  /\ tick' = "running"
  /\ UNCHANGED <<s_connected, dataBuffer, inLoop, drainVars, retval, okCount,
                 evicted, bufBefore, recovered>>
  /\ tickPosts' = 0

\* The start of a connected tick with an empty buffer, the measurement left out.
LoopDirect ==
  /\ TickDirect
  /\ UNCHANGED measureVars
  /\ UNCHANGED <<gateVars, ntpVars>>

\* The last send of the drain returns: sendBufferedData returns to loop(),
\* which goes on to send the new reading.
DrainLast ==
  /\ pc = "ret"
  /\ caller = "drain"
  /\ inLoop
  /\ it = Len(dataBuffer)
  /\ FinishDrain
  /\ caller' = "direct"
  /\ posted' = Append(posted, data)
  /\ EnterSend
  /\ UNCHANGED <<netVars, inLoop, data, it, initialSize, produced, okCount,
                 evicted, startBuf, bufBefore, allOk, tick>>
  /\ UNCHANGED tickPosts
  /\ UNCHANGED measureVars
  /\ UNCHANGED <<gateVars, ntpVars>>

\* The direct send of the new reading returns to loop(): a reading that
\* was not sent is buffered, and the tick ends.
DirectReturn ==
  /\ pc = "ret"
  /\ caller = "direct"
  /\ inLoop
  /\ retval' = success
  /\ IF ~success
       THEN CallBufferData(data)
       ELSE UNCHANGED <<dataBuffer, evicted, bufBefore>>
  /\ tick' = IF success THEN "sent" ELSE "failed"
  /\ LeaveSend
  /\ caller' = "none"
  /\ UNCHANGED <<netVars, inLoop, data, drainVars, produced, okCount,
                 startBuf, drainResults, posted, recovered, allOk>>
  /\ UNCHANGED tickPosts
  /\ UNCHANGED measureVars
  /\ UNCHANGED <<gateVars, ntpVars>>

\* ---------------------------------------------------------------- NetworkManager

\* wifiEventHandler, ARDUINO_EVENT_WIFI_STA_GOT_IP
WifiGotIp ==
  /\ ~s_connected
  /\ s_connected' = TRUE
  /\ UNCHANGED <<connected, dataBuffer, pc, caller, inLoop, data, drainVars,
                 sendVars, retval, produced, okCount, evicted, startBuf,
                 drainResults, posted, bufBefore, recovered, allOk, tick>>
  /\ UNCHANGED tickPosts
  /\ UNCHANGED measureVars
  /\ UNCHANGED <<gateVars, ntpVars>>

\* The handler of the disconnect event writing the member that
\* isConnected() returns as well.
WifiDisconnected_writesMember ==
  /\ s_connected
  /\ s_connected' = FALSE
  /\ connected' = FALSE
  /\ UNCHANGED <<dataBuffer, pc, caller, inLoop, data, drainVars,
                 sendVars, retval, produced, okCount, evicted, startBuf,
                 drainResults, posted, bufBefore, recovered, allOk, tick>>
  /\ UNCHANGED tickPosts
  /\ UNCHANGED measureVars
  /\ UNCHANGED <<gateVars, ntpVars>>

\* The handler of the disconnect event dropping the buffered readings too.
WifiDisconnected_dropsBuffer ==
  /\ s_connected
  /\ s_connected' = FALSE
  /\ dataBuffer' = <<>>
  /\ UNCHANGED <<connected, pc, caller, inLoop, data, drainVars,
                 sendVars, retval, produced, okCount, evicted, startBuf,
                 drainResults, posted, bufBefore, recovered, allOk, tick>>
  /\ UNCHANGED tickPosts
  /\ UNCHANGED measureVars
  /\ UNCHANGED <<gateVars, ntpVars>>

\* wifiEventHandler, ARDUINO_EVENT_WIFI_STA_DISCONNECTED
WifiDisconnected ==
  /\ s_connected
  /\ s_connected' = FALSE
  /\ UNCHANGED <<connected, dataBuffer, pc, caller, inLoop, data, drainVars,
                 sendVars, retval, produced, okCount, evicted, startBuf,
                 drainResults, posted, bufBefore, recovered, allOk, tick>>
  /\ UNCHANGED tickPosts
  /\ UNCHANGED measureVars
  /\ UNCHANGED <<gateVars, ntpVars>>

\* ---------------------------------------------------------------- DataManager called directly

\* bufferData called with a new reading.
ApiBufferData ==
  /\ pc = "idle"
  /\ ~inLoop
  /\ produced < MaxReadings
  /\ produced' = produced + 1
  /\ data' = produced + 1
  /\ CallBufferData(produced + 1)
  /\ tick' = "buffered"
  /\ UNCHANGED <<netVars, pc, caller, inLoop, drainVars, sendVars, retval,
                 okCount, startBuf, drainResults, posted, recovered, allOk>>
  /\ UNCHANGED tickPosts
  /\ UNCHANGED measureVars
  /\ UNCHANGED <<gateVars, ntpVars>>

\* sendBufferedData called with an empty buffer: returns true at once.
ApiDrainEmpty ==
  /\ pc = "idle"
  /\ ~inLoop
  /\ dataBuffer = <<>>
  /\ retval' = TRUE
  /\ startBuf' = dataBuffer
  /\ drainResults' = <<>>
  /\ posted' = <<>>
  /\ tick' = "nodata"
  /\ UNCHANGED <<netVars, dataBuffer, pc, caller, inLoop, data, drainVars,
                 sendVars, produced, okCount, evicted, bufBefore, recovered,
                 allOk>>
  /\ UNCHANGED tickPosts
  /\ UNCHANGED measureVars
  /\ UNCHANGED <<gateVars, ntpVars>>

\* sendBufferedData called with a non-empty buffer, up to its first POST.
ApiDrain ==
  /\ pc = "idle"
  /\ ~inLoop
  /\ dataBuffer # <<>>
  /\ EnterDrain
  /\ tick' = "running"
  /\ UNCHANGED <<netVars, dataBuffer, inLoop, data, retval, produced, okCount,
                 evicted, bufBefore, recovered>>
  /\ UNCHANGED tickPosts
  /\ UNCHANGED measureVars
  /\ UNCHANGED <<gateVars, ntpVars>>

\* The last send of the drain returns: sendBufferedData returns to its caller.
ApiDrainLast ==
  /\ pc = "ret"
  /\ caller = "drain"
  /\ ~inLoop
  /\ it = Len(dataBuffer)
  /\ FinishDrain
  /\ caller' = "none"
  /\ LeaveSend
  /\ tick' = "drained"
  /\ UNCHANGED <<netVars, inLoop, data, it, initialSize, produced,
                 okCount, evicted, startBuf, posted, bufBefore, allOk>>
  /\ UNCHANGED tickPosts
  /\ UNCHANGED measureVars
  /\ UNCHANGED <<gateVars, ntpVars>>

\* sendData called with a new reading, up to its first POST.
ApiSendData ==
  /\ pc = "idle"
  /\ ~inLoop
  /\ produced < MaxReadings
  /\ produced' = produced + 1
  /\ data' = produced + 1
  /\ caller' = "direct"
  /\ EnterSend
  /\ startBuf' = dataBuffer
  /\ drainResults' = <<>>
  /\ posted' = <<produced + 1>>
  /\ allOk' = TRUE
  /\ tick' = "running"
  /\ UNCHANGED <<netVars, dataBuffer, inLoop, drainVars, retval, okCount,
                 evicted, bufBefore, recovered>>
  /\ UNCHANGED tickPosts
  /\ UNCHANGED measureVars
  /\ UNCHANGED <<gateVars, ntpVars>>

\* sendData returns to its caller.
ApiSendReturn ==
  /\ pc = "ret"
  /\ caller = "direct"
  /\ ~inLoop
  /\ retval' = success
  /\ tick' = "returned"
  /\ LeaveSend
  /\ caller' = "none"
  /\ UNCHANGED <<netVars, dataBuffer, inLoop, data, drainVars,
                 produced, okCount, evicted, startBuf, drainResults, posted,
                 bufBefore, recovered, allOk>>
  /\ UNCHANGED tickPosts
  /\ UNCHANGED measureVars
  /\ UNCHANGED <<gateVars, ntpVars>>

\* ---------------------------------------------------------------- PowerMonitor
\* Floating-point quantities are fixed-point integers: voltages of the
\* sensor in units of UNIT_UV microvolts, currents in microamperes, the
\* mains voltage in volts, power in microwatts, energy in
\* microwatt-milliseconds (1 kWh = 3 600 000 ms * 1000 * 1 000 000 uW).

\* Resolution of the sensor voltages, in microvolts.
UNIT_UV == 25

\* ADC reference voltage: 3.3 V.
VREF == 132000

\* 1 << ADC_BITS
ADC_COUNTS == 4096

\* Burden resistor, in ohms.
CT_BURDEN_RESISTOR == 33

\* Turns ratio of the current transformer.
CT_TURNS_RATIO == 2000

\* Default mains voltage, in volts.
MAINS_VOLTAGE == 230

\* Noise floor of calculateRMSCurrent: 0.05 A.
NOISE_FLOOR == 50000

\* Number of analog samples of one measurement.  Config.h sets it to 100;
\* the model scales it down.
SAMPLES_PER_CYCLE == 2

\* Width of unsigned long.  It is 32 bits on the ESP32; the model keeps the
\* wrap-around on a narrower counter.
ULONG_BITS == 4

ULONG_MOD == 2 ^ ULONG_BITS

\* Number of PowerMonitor::update calls in a run.
MaxUpdates == 3

\* Values of analogRead: the midpoint 2048, its neighbours (the one below
\* gives exactly the noise floor, the one above a little less), and larger
\* swings.
AdcValues == {1248, 2047, 2048, 2049, 2172, 2848}

\* Values of analogRead of an almost idle sensor: samples of the first
\* alone give the noise floor exactly, any other mix less.
AdcQuiet == {2047, 2049}

\* Calibration factors.
CalFactors == {-1, 0, 1, 2}

\* Arguments of setVoltage.
Voltages == {-MAINS_VOLTAGE, 0, 110}

\* Milliseconds that pass between two reads of millis().  After
\* ULONG_MOD - 1 of them the counter shows one less than before.
ClockSteps == {0, 1, ULONG_MOD - 1}

RECURSIVE SqrtBetween(_, _, _)
SqrtBetween(n, lo, hi) ==
  IF lo = hi THEN lo
  ELSE LET mid == (lo + hi + 1) \div 2
       IN IF mid * mid <= n THEN SqrtBetween(n, mid, hi)
                            ELSE SqrtBetween(n, lo, mid - 1)

\* sqrt, rounded down.
sqrt(n) == SqrtBetween(n, 0, 46340)

RECURSIVE SumSquared(_, _)
SumSquared(smp, i) ==
  IF i = 0 THEN 0
  ELSE LET voltage == (smp[i] * VREF) \div ADC_COUNTS
           voltageOffset == voltage - VREF \div 2
       IN SumSquared(smp, i - 1) + voltageOffset * voltageOffset

\* PowerMonitor::readCurrentSensor: the mean squared offset voltage of the
\* samples smp.
readCurrentSensor(smp) == SumSquared(smp, Len(smp)) \div Len(smp)

\* The conversion dividing by the turns ratio, as the comment in
\* calculateRMSCurrent has it.
CalibratedCurrent_divTurns(meanSquared, cal) ==
  LET rmsVoltage == sqrt(meanSquared)
      rmsCurrent == ((rmsVoltage * UNIT_UV) \div CT_BURDEN_RESISTOR) \div CT_TURNS_RATIO
  IN rmsCurrent * cal

\* calculateRMSCurrent before the noise floor: the RMS voltage converted
\* to a current and calibrated.
CalibratedCurrent(meanSquared, cal) ==
  LET rmsVoltage == sqrt(meanSquared)
      rmsCurrent == (rmsVoltage * UNIT_UV * CT_TURNS_RATIO) \div CT_BURDEN_RESISTOR
  IN rmsCurrent * cal

\* The noise floor applied to readings at the floor as well.
calculateRMSCurrent_le(meanSquared, cal) ==
  LET rmsCurrent == CalibratedCurrent(meanSquared, cal)
  IN IF rmsCurrent <= NOISE_FLOOR THEN 0 ELSE rmsCurrent

\* The noise floor applied to the magnitude of the reading.
calculateRMSCurrent_abs(meanSquared, cal) ==
  LET rmsCurrent == CalibratedCurrent(meanSquared, cal)
  IN IF rmsCurrent < NOISE_FLOOR /\ -rmsCurrent < NOISE_FLOOR THEN 0 ELSE rmsCurrent

\* PowerMonitor::calculateRMSCurrent
calculateRMSCurrent(meanSquared, cal) ==
  LET rmsCurrent == CalibratedCurrent(meanSquared, cal)
  IN IF rmsCurrent < NOISE_FLOOR THEN 0 ELSE rmsCurrent

\* PowerMonitor::calculatePower
calculatePower(current, voltage) == current * voltage

\* updateEnergy: currentTime - lastEnergyCalcTime in unsigned arithmetic.
TimeDelta(currentTime, last) == (currentTime - last) % ULONG_MOD

\* updateEnergy assigning the increment instead of adding it.
EnergyAfter_assign(energy, power, timeDelta) ==
  IF timeDelta > 0 THEN power * timeDelta ELSE energy

\* updateEnergy: the cumulative energy after the call.
EnergyAfter(energy, power, timeDelta) ==
  IF timeDelta > 0 THEN energy + power * timeDelta ELSE energy

\* setVoltage taking any value.
setVoltage_any(voltage, v) == v

\* PowerMonitor::setVoltage: the configured voltage after setVoltage(v).
setVoltage(voltage, v) == IF v > 0 THEN v ELSE voltage

\* PowerMonitor::PowerMonitor
PowerMonitorInit ==
  /\ currentRMS = 0
  /\ mainVoltage = MAINS_VOLTAGE
  /\ powerWatts = 0
  /\ energyKwh = 0
  /\ lastEnergyCalcTime = 0
  /\ calibrationFactor = 1
  /\ millis = 0
  /\ samples = <<>>
  /\ pmOp = "new"
  /\ prevEnergy = 0
  /\ prevLast = 0
  /\ pmUpdates = 0
  /\ rawCurrent = 0

\* PowerMonitor::begin, called at any time after the start of the counter.
PMBegin ==
  /\ pmOp = "new"
  /\ \E d \in ClockSteps :
       /\ millis' = (millis + d) % ULONG_MOD
       /\ lastEnergyCalcTime' = (millis + d) % ULONG_MOD
  /\ pmOp' = "begin"
  /\ prevEnergy' = energyKwh
  /\ prevLast' = lastEnergyCalcTime
  /\ UNCHANGED <<samples, calibrationFactor, currentRMS, mainVoltage, powerWatts,
                 energyKwh, pmUpdates, rawCurrent>>
  /\ UNCHANGED <<deliveryVars, aiVars, made>>
  /\ UNCHANGED <<gateVars, ntpVars>>

\* PowerMonitor::update integrating the power of the previous cycle.
PowerMonitorUpdate_stalePower(smp, d) ==
  LET currentTime == (millis + d) % ULONG_MOD
      current == calculateRMSCurrent(readCurrentSensor(smp), calibrationFactor)
      power == calculatePower(current, mainVoltage)
      timeDelta == TimeDelta(currentTime, lastEnergyCalcTime)
  IN /\ samples' = smp
     /\ millis' = currentTime
     /\ currentRMS' = current
     /\ powerWatts' = power
     /\ energyKwh' = EnergyAfter(energyKwh, powerWatts, timeDelta)
     /\ lastEnergyCalcTime' = IF timeDelta > 0 THEN currentTime
                                               ELSE lastEnergyCalcTime
     /\ pmOp' = "update"
     /\ prevEnergy' = energyKwh
     /\ prevLast' = lastEnergyCalcTime
     /\ pmUpdates' = pmUpdates + 1
     /\ rawCurrent' = readCurrentSensor(smp)
     /\ UNCHANGED <<calibrationFactor, mainVoltage>>

\* PowerMonitor::update with the samples smp, d milliseconds after the
\* last read of millis(): read the sensor, compute current and power,
\* integrate the energy over the time since the last integration.
PowerMonitorUpdate(smp, d) ==
  LET currentTime == (millis + d) % ULONG_MOD
      current == calculateRMSCurrent(readCurrentSensor(smp), calibrationFactor)
      power == calculatePower(current, mainVoltage)
      timeDelta == TimeDelta(currentTime, lastEnergyCalcTime)
  IN /\ samples' = smp
     /\ millis' = currentTime
     /\ currentRMS' = current
     /\ powerWatts' = power
     /\ energyKwh' = EnergyAfter(energyKwh, power, timeDelta)
     /\ lastEnergyCalcTime' = IF timeDelta > 0 THEN currentTime
                                               ELSE lastEnergyCalcTime
     /\ pmOp' = "update"
     /\ prevEnergy' = energyKwh
     /\ prevLast' = lastEnergyCalcTime
     /\ pmUpdates' = pmUpdates + 1
     /\ rawCurrent' = readCurrentSensor(smp)
     /\ UNCHANGED <<calibrationFactor, mainVoltage>>

\* PowerMonitor::update called with any samples at any time.
PMUpdate ==
  /\ pmOp \in {"begin", "update", "setVoltage"}
  /\ pmUpdates < MaxUpdates
  /\ \E smp \in [1..SAMPLES_PER_CYCLE -> AdcQuiet], d \in ClockSteps :
       PowerMonitorUpdate(smp, d)
  /\ UNCHANGED <<deliveryVars, aiVars, made>>
  /\ UNCHANGED <<gateVars, ntpVars>>

\* PowerMonitor::setVoltage
PMSetVoltage ==
  /\ pmOp \in {"begin", "update", "setVoltage"}
  /\ \E v \in Voltages : mainVoltage' = setVoltage(mainVoltage, v)
  /\ pmOp' = "setVoltage"
  /\ prevEnergy' = energyKwh
  /\ prevLast' = lastEnergyCalcTime
  /\ UNCHANGED <<millis, samples, calibrationFactor, currentRMS, powerWatts,
                 energyKwh, lastEnergyCalcTime, pmUpdates, rawCurrent>>
  /\ UNCHANGED <<deliveryVars, aiVars, made>>
  /\ UNCHANGED <<gateVars, ntpVars>>

\* calculateRMSCurrent applied to the mean square of the samples, for the
\* sample sequence and the calibration factor of the initial state.
RmsApply ==
  /\ pmOp = "input"
  /\ rawCurrent' = readCurrentSensor(samples)
  /\ currentRMS' = calculateRMSCurrent(readCurrentSensor(samples), calibrationFactor)
  /\ pmOp' = "output"
  /\ UNCHANGED <<millis, samples, calibrationFactor, mainVoltage, powerWatts,
                 energyKwh, lastEnergyCalcTime, prevEnergy, prevLast, pmUpdates>>
  /\ UNCHANGED <<deliveryVars, aiVars, made>>
  /\ UNCHANGED <<gateVars, ntpVars>>

\* RMS voltages of the sensor, in units of UNIT_UV: none, around the one
\* that gives the noise floor, and up to a little over 0.1 V.
RmsVoltages == {0, 32, 33, 34, 400, 1000, 2000, 3996, 4000, 4004}

\* Mean squares handed to calculateRMSCurrent.
MeanSquares == {r * r : r \in RmsVoltages}

\* Calibration factors of the conversion.
CalcFactors == {-1, 0, 1}

\* Configured voltages of the conversion.
CalcVoltages == {110, MAINS_VOLTAGE}

\* update() after readCurrentSensor returned: calculateRMSCurrent, then
\* calculatePower.
CalcApply ==
  /\ pmOp = "meanSquared"
  /\ currentRMS' = calculateRMSCurrent(rawCurrent, calibrationFactor)
  /\ powerWatts' = calculatePower(currentRMS', mainVoltage)
  /\ pmOp' = "power"
  /\ UNCHANGED <<millis, samples, calibrationFactor, mainVoltage, energyKwh,
                 lastEnergyCalcTime, prevEnergy, prevLast, pmUpdates, rawCurrent>>
  /\ UNCHANGED <<deliveryVars, aiVars, made>>
  /\ UNCHANGED <<gateVars, ntpVars>>

\* ---------------------------------------------------------------- AiProcessor
\* A reading in the history is a record of its production number
\* (timestamp) and its power (any unit).  Averages, deviations and the
\* prediction are exact rationals; the rounding of float is left out.

\* Capacity of the history window.
TREND_WINDOW_SIZE == 10

\* Number of history entries detectAnomaly asks for.
MIN_HISTORY == 3

\* ANOMALY_THRESHOLD, 0.2, as numerator and denominator.
ANOMALY_THRESHOLD == <<1, 5>>

\* Percent change below which analyzeTrend reports a stable usage.
STABLE_PERCENT == 5

\* Number of readings passed to the AiProcessor in a run.
MaxPassed == 12

\* Powers of the readings.
Powers == {0, 100}

Abs(x) == IF x < 0 THEN -x ELSE x

\* Sum of the powers of hist[lo..hi].
RECURSIVE SumPower(_, _, _)
SumPower(hist, lo, hi) ==
  IF hi < lo THEN 0 ELSE SumPower(hist, lo, hi - 1) + hist[hi].power

\* Sum of the squared powers of hist.
RECURSIVE SumPower2(_, _)
SumPower2(hist, hi) ==
  IF hi = 0 THEN 0 ELSE SumPower2(hist, hi - 1) + hist[hi].power * hist[hi].power

\* Sum of i * hist[i + 1].power for i < n, the sumXY of updatePrediction.
RECURSIVE SumXY(_, _)
SumXY(hist, n) ==
  IF n = 0 THEN 0 ELSE SumXY(hist, n - 1) + (n - 1) * hist[n].power

\* Sum of i * i for i < n, the sumX2 of updatePrediction.
RECURSIVE SumX2(_)
SumX2(n) == IF n = 0 THEN 0 ELSE SumX2(n - 1) + (n - 1) * (n - 1)

\* The history kept one entry short of the capacity.
update_ge(hist, d) ==
  LET pushed == Append(hist, d)
  IN IF Len(pushed) >= TREND_WINDOW_SIZE THEN Tail(pushed) ELSE pushed

\* AiProcessor::update, the history part: push_back, then pop_front when
\* the size exceeds the capacity.
update(hist, d) ==
  LET pushed == Append(hist, d)
  IN IF Len(pushed) > TREND_WINDOW_SIZE THEN Tail(pushed) ELSE pushed

\* detectAnomaly with the standard deviation of the population (divisor n).
detectAnomaly_population(hist, d) ==
  IF Len(hist) < MIN_HISTORY THEN FALSE
  ELSE LET n == Len(hist)
           sum == SumPower(hist, 1, n)
           varN == n * SumPower2(hist, n) - sum * sum
           devN == d.power * n - sum
       IN ANOMALY_THRESHOLD[2] * ANOMALY_THRESHOLD[2] * n * devN * devN
            > ANOMALY_THRESHOLD[1] * ANOMALY_THRESHOLD[1] * n * varN

\* detectAnomaly asking for two history entries only.
detectAnomaly_floor2(hist, d) ==
  IF Len(hist) < MIN_HISTORY - 1 THEN FALSE
  ELSE LET n == Len(hist)
           sum == SumPower(hist, 1, n)
           varN == n * SumPower2(hist, n) - sum * sum
           devN == d.power * n - sum
       IN ANOMALY_THRESHOLD[2] * ANOMALY_THRESHOLD[2] * (n - 1) * devN * devN
            > ANOMALY_THRESHOLD[1] * ANOMALY_THRESHOLD[1] * n * varN

\* AiProcessor::detectAnomaly with calculateMovingAverage and
\* calculateStandardDeviation.  With n entries of sum `sum`,
\*   avg = sum / n, deviation = |devN| / n, stdDev = sqrt(varN / (n (n - 1))),
\* and deviation > stdDev * ANOMALY_THRESHOLD is compared by the squares.
detectAnomaly(hist, d) ==
  IF Len(hist) < MIN_HISTORY THEN FALSE
  ELSE LET n == Len(hist)
           sum == SumPower(hist, 1, n)
           varN == n * SumPower2(hist, n) - sum * sum
           devN == d.power * n - sum
       IN ANOMALY_THRESHOLD[2] * ANOMALY_THRESHOLD[2] * (n - 1) * devN * devN
            > ANOMALY_THRESHOLD[1] * ANOMALY_THRESHOLD[1] * n * varN

\* The outcomes of analyzeTrend that classify the trend.
Classifications == {"Stable usage", "Increasing", "Decreasing"}

\* No percentage is printed.
NoPercent == [kind |-> "none", num |-> 0, den |-> 1]

\* The change taken relative to the mean of the second half.
PercentChange_ofLast(first, last) ==
  IF last # 0 THEN [kind |-> "finite", num |-> (last - first) * 100, den |-> last]
  ELSE IF last > first THEN [kind |-> "inf", num |-> 1, den |-> 0]
  ELSE IF last < first THEN [kind |-> "inf", num |-> -1, den |-> 0]
  ELSE [kind |-> "nan", num |-> 0, den |-> 0]

\* The float percentChange = (change / firstAvg) * 100.0, for half-window
\* sums first and last: a rational, or what IEEE 754 gives for a division
\* by zero.
PercentChange(first, last) ==
  IF first # 0 THEN [kind |-> "finite", num |-> (last - first) * 100, den |-> first]
  ELSE IF last > first THEN [kind |-> "inf", num |-> 1, den |-> 0]
  ELSE IF last < first THEN [kind |-> "inf", num |-> -1, den |-> 0]
  ELSE [kind |-> "nan", num |-> 0, den |-> 0]

\* A change of 5 percent taken for stable.
IsStable_le(pct) ==
  pct.kind = "finite" /\ Abs(pct.num) <= STABLE_PERCENT * Abs(pct.den)

\* fabs(percentChange) < 5.0; false for an infinity and for NaN.
IsStable(pct) ==
  pct.kind = "finite" /\ Abs(pct.num) < STABLE_PERCENT * Abs(pct.den)

\* percentChange > 0; false for NaN.
IsPositive(pct) ==
  \/ pct.kind = "finite" /\ pct.num * pct.den > 0
  \/ pct.kind = "inf" /\ pct.num > 0

\* What Serial.print shows for -percentChange.
Negated(pct) == [pct EXCEPT !.num = IF pct.kind = "finite" THEN -pct.num ELSE pct.num]

\* analyzeTrend reporting a full window as not enough data.
analyzeTrend_le(hist) ==
  IF Len(hist) <= TREND_WINDOW_SIZE
  THEN [outcome |-> "Not enough data", percent |-> NoPercent]
  ELSE [outcome |-> "Stable usage", percent |-> NoPercent]

\* AiProcessor::analyzeTrend: what the call prints.
analyzeTrend(hist) ==
  IF Len(hist) < TREND_WINDOW_SIZE
  THEN [outcome |-> "Not enough data", percent |-> NoPercent]
  ELSE LET half == TREND_WINDOW_SIZE \div 2
           first == SumPower(hist, 1, half)
           last == SumPower(hist, half + 1, TREND_WINDOW_SIZE)
           percentChange == PercentChange(first, last)
       IN IF IsStable(percentChange)
          THEN [outcome |-> "Stable usage", percent |-> NoPercent]
          ELSE IF IsPositive(percentChange)
          THEN [outcome |-> "Increasing", percent |-> percentChange]
          ELSE [outcome |-> "Decreasing", percent |-> Negated(percentChange)]

\* updatePrediction without the test for a negative prediction.
updatePrediction_noClamp(hist, prediction) ==
  IF Len(hist) < 2
  THEN IF hist # <<>> THEN <<hist[Len(hist)].power, 1>> ELSE prediction
  ELSE LET n == Len(hist)
           sumX == (n * (n - 1)) \div 2
           sumY == SumPower(hist, 1, n)
           sumXY == SumXY(hist, n)
           sumX2 == SumX2(n)
           slopeN == n * sumXY - sumX * sumY
           slopeD == n * sumX2 - sumX * sumX
           num == sumY * slopeD - slopeN * sumX + slopeN * n * n
       IN <<num, n * slopeD>>

\* AiProcessor::updatePrediction: the least-squares line over positions
\* 0..n-1 evaluated at n, as <<numerator, denominator>>.
updatePrediction(hist, prediction) ==
  IF Len(hist) < 2
  THEN IF hist # <<>> THEN <<hist[Len(hist)].power, 1>> ELSE prediction
  ELSE LET n == Len(hist)
           sumX == (n * (n - 1)) \div 2
           sumY == SumPower(hist, 1, n)
           sumXY == SumXY(hist, n)
           sumX2 == SumX2(n)
           slopeN == n * sumXY - sumX * sumY
           slopeD == n * sumX2 - sumX * sumX
           num == sumY * slopeD - slopeN * sumX + slopeN * n * n
       IN IF num < 0 THEN <<0, 1>> ELSE <<num, n * slopeD>>

\* detectAnomaly leaving the reading it evaluated in the history.
ProcessReading_detectAppends(hist, d) ==
  [anomaly |-> detectAnomaly(hist, d), seen |-> hist,
   history |-> update(Append(hist, d), d)]

\* The cycle evaluating the anomaly against the window that already holds
\* the reading.
ProcessReading_appendFirst(hist, d) ==
  LET after == update(hist, d)
  IN [anomaly |-> detectAnomaly(after, d), seen |-> after, history |-> after]

\* loop(), the AI part of a cycle: detectAnomaly(data), then update(data).
ProcessReading(hist, d) ==
  [anomaly |-> detectAnomaly(hist, d), seen |-> hist, history |-> update(hist, d)]

\* AiProcessor::AiProcessor and begin
AiProcessorInit ==
  /\ dataHistory = <<>>
  /\ powerPrediction = <<0, 1>>
  /\ passed = <<>>
  /\ seen = <<>>
  /\ anomaly = FALSE
  /\ flags = <<>>
  /\ trend = [outcome |-> "none", percent |-> NoPercent]
  /\ aiOp = "begin"

\* loop(), the AI part of a cycle for the reading d: the anomaly flag of
\* the reading, then the reading into the history and the new prediction.
AiProcess(d) ==
  LET r == ProcessReading(dataHistory, d)
  IN /\ anomaly' = r.anomaly
     /\ seen' = r.seen
     /\ dataHistory' = r.history
     /\ powerPrediction' = updatePrediction(r.history, powerPrediction)
     /\ passed' = Append(passed, d)
     /\ flags' = Append(flags, r.anomaly)
     /\ aiOp' = "cycle"
     /\ UNCHANGED trend

\* loop(), a cycle with a reading of power p.
AiCycle ==
  /\ Len(passed) < MaxPassed
  /\ \E p \in Powers : AiProcess([timestamp |-> Len(passed) + 1, power |-> p])
  /\ UNCHANGED <<deliveryVars, powerVars, made>>
  /\ UNCHANGED <<gateVars, ntpVars>>

\* loop(), the trend analysis.
AiAnalyzeTrend ==
  /\ trend' = analyzeTrend(dataHistory)
  /\ aiOp' = "analyzeTrend"
  /\ UNCHANGED <<dataHistory, powerPrediction, passed, seen, anomaly, flags>>
  /\ UNCHANGED <<deliveryVars, powerVars, made>>
  /\ UNCHANGED <<gateVars, ntpVars>>

\* ---------------------------------------------------------------- the whole loop()

\* The power of a reading as AiProcessor computes with it is in units of
\* 0.1 W, AI_POWER_UNIT microwatts.
AI_POWER_UNIT == 100000

\* The samples of a cycle of the application: the sensor at the noise floor.
AppSamples == {[i \in 1..SAMPLES_PER_CYCLE |-> 2047]}

\* Milliseconds between two cycles of the application.
AppClockSteps == {1}

\* loop(): the PowerData built from the getters of PowerMonitor and the
\* timestamp (getTimestamp without NTP: millis()), with the anomaly flag.
NewReading(timestamp, current, voltage, power, energy, flag) ==
  [timestamp |-> timestamp, current |-> current, voltage |-> voltage,
   power |-> power, energy |-> energy, anomaly |-> flag]

\* The fields of a reading AiProcessor reads.
AiView(timestamp, power) ==
  [timestamp |-> timestamp, power |-> power \div AI_POWER_UNIT]

\* loop(), the measurement of a cycle: powerMonitor.update(), the new
\* PowerData, detectAnomaly and aiProcessor.update.
Measure ==
  \E smp \in AppSamples, d \in AppClockSteps :
    /\ PowerMonitorUpdate(smp, d)
    /\ AiProcess(AiView(millis', powerWatts'))
    /\ made' = Append(made, NewReading(millis', currentRMS', mainVoltage',
                                       powerWatts', energyKwh', anomaly'))

\* convertDataToJson reading the getters of PowerMonitor instead of d.
convertDataToJson_live(d) ==
  [timestamp |-> millis, current_amps |-> currentRMS,
   voltage_volts |-> mainVoltage, power_watts |-> powerWatts,
   energy_kwh |-> energyKwh, device_id |-> "DEVICE_NAME"]

\* DataManager::convertDataToJson
convertDataToJson(d) ==
  [timestamp |-> d.timestamp, current_amps |-> d.current,
   voltage_volts |-> d.voltage, power_watts |-> d.power,
   energy_kwh |-> d.energy, device_id |-> "DEVICE_NAME"]

\* sendData: the payload of the running send.
jsonPayload == convertDataToJson(made[Sending])

\* A tick of loop() without connectivity.
AppOffline ==
  /\ TickOffline
  /\ Measure
  /\ UNCHANGED <<gateVars, ntpVars>>

\* The start of a connected tick with buffered readings.
AppDrain ==
  /\ TickDrain
  /\ Measure
  /\ UNCHANGED <<gateVars, ntpVars>>

\* The start of a connected tick with an empty buffer.
AppDirect ==
  /\ TickDirect
  /\ Measure
  /\ UNCHANGED <<gateVars, ntpVars>>

\* An iteration of loop() in which the AI interval has elapsed: the trend
\* analysis.
AppTrend ==
  /\ pc = "idle"
  /\ inLoop
  /\ connected' = s_connected
  /\ trend' = analyzeTrend(dataHistory)
  /\ aiOp' = "analyzeTrend"
  /\ UNCHANGED <<dataHistory, powerPrediction, passed, seen, anomaly, flags>>
  /\ UNCHANGED <<s_connected, dataBuffer, pc, caller, inLoop, data, drainVars,
                 sendVars, retval, produced, okCount, evicted, startBuf,
                 drainResults, posted, bufBefore, recovered, allOk, tick,
                 tickPosts>>
  /\ UNCHANGED <<powerVars, made>>
  /\ UNCHANGED <<gateVars, ntpVars>>

\* ---------------------------------------------------------------- NetworkManager, the time

\* How the wait of configureNTP for the time can end: the time was set
\* within the ten tries, or it was not.
NtpOutcomes == {"synced", "failed"}

\* NetworkManager::configureNTP: ntpConfigured when the call returns.
configureNTP(flag, outcome) == IF outcome = "failed" THEN FALSE ELSE flag

\* NetworkManager::update, the connected branch: ntpConfigured after
\* "if (!ntpConfigured) { configureNTP(); ntpConfigured = true; }".
NtpAfterUpdate(flag, outcome) ==
  IF ~flag
    THEN LET returned == configureNTP(flag, outcome)
         IN TRUE
    ELSE flag

\* NetworkManager::update, d milliseconds after the last read of the
\* counter: the connectivity is copied, and when connected without NTP
\* configured, configureNTP runs.
NetUpdate ==
  /\ pc = "idle"
  /\ inLoop
  /\ connected' = s_connected
  /\ \E d \in ClockSteps : millis' = (millis + d) % ULONG_MOD
  /\ IF s_connected /\ ~ntpConfigured
       THEN \E outcome \in NtpOutcomes :
              /\ ntpConfigured' = NtpAfterUpdate(ntpConfigured, outcome)
              /\ ntpOutcome' = outcome
              /\ synced' = (synced \/ outcome = "synced")
       ELSE UNCHANGED <<ntpConfigured, ntpOutcome, synced>>
  /\ UNCHANGED timestampFrom
  /\ UNCHANGED <<s_connected, dataBuffer, pc, caller, inLoop, data, drainVars,
                 sendVars, retval, produced, okCount, evicted, startBuf,
                 drainResults, posted, bufBefore, recovered, allOk, tick,
                 tickPosts>>
  /\ UNCHANGED <<samples, calibrationFactor, currentRMS, mainVoltage,
                 powerWatts, energyKwh, lastEnergyCalcTime, pmOp, prevEnergy,
                 prevLast, pmUpdates, rawCurrent>>
  /\ UNCHANGED <<aiVars, made, gateVars>>

\* NetworkManager::getTimestamp: the system time when ntpConfigured, else
\* millis().
NetGetTimestamp ==
  /\ pc = "idle"
  /\ inLoop
  /\ timestampFrom' = IF ntpConfigured THEN "time" ELSE "millis"
  /\ UNCHANGED <<ntpConfigured, ntpOutcome, synced>>
  /\ UNCHANGED <<deliveryVars, measureVars, gateVars>>

\* ---------------------------------------------------------------- the gate of loop()

\* Milliseconds between two cycles.  It is 5000 in loop(), with a counter
\* of 32 bits; the model scales both down.
sendInterval == 5

\* Milliseconds between two reads of millis() by loop(): the delay at the
\* end of an iteration, or an iteration that was blocked for longer, up to
\* almost a whole round of the counter.
GateSteps == {1, 2, sendInterval, ULONG_MOD - 1}

\* The largest elapsed time the history variables tell apart.
MaxElapsed == 2 * ULONG_MOD

\* The gate comparing the counter with the wrapped sum of the last start
\* and the interval.
TimeToSend_sum(currentMillis, last) ==
  currentMillis >= (last + sendInterval) % ULONG_MOD

\* loop(): "Time to send data?", currentMillis - lastSendTime >=
\* sendInterval in unsigned arithmetic.
TimeToSend(currentMillis, last) ==
  (currentMillis - last) % ULONG_MOD >= sendInterval

\* An iteration of loop(), d milliseconds after the one before:
\* networkManager.update(), then the gate; when it opens, lastSendTime
\* becomes the counter and the cycle runs.
GateLoop ==
  /\ pc = "idle"
  /\ inLoop
  /\ \E d \in GateSteps :
       LET currentMillis == (millis + d) % ULONG_MOD
           elapsed == IF sinceSend + d < MaxElapsed THEN sinceSend + d
                                                   ELSE MaxElapsed
       IN /\ millis' = currentMillis
          /\ IF TimeToSend(currentMillis, lastSendTime)
               THEN /\ lastSendTime' = currentMillis
                    /\ gap' = elapsed
                    /\ sinceSend' = 0
                    /\ gate' = "cycle"
               ELSE /\ sinceSend' = elapsed
                    /\ gate' = "skip"
                    /\ UNCHANGED <<lastSendTime, gap>>
  /\ connected' = s_connected
  /\ UNCHANGED <<s_connected, dataBuffer, pc, caller, inLoop, data, drainVars,
                 sendVars, retval, produced, okCount, evicted, startBuf,
                 drainResults, posted, bufBefore, recovered, allOk, tick,
                 tickPosts>>
  /\ UNCHANGED <<samples, calibrationFactor, currentRMS, mainVoltage,
                 powerWatts, energyKwh, lastEnergyCalcTime, pmOp, prevEnergy,
                 prevLast, pmUpdates, rawCurrent>>
  /\ UNCHANGED <<aiVars, made, ntpVars>>

\* ---------------------------------------------------------------- specifications

\* The state after setup(): nothing buffered, not connected.
InitCommon ==
  /\ s_connected = FALSE
  /\ connected = FALSE
  /\ dataBuffer = <<>>
  /\ pc = "idle"
  /\ caller = "none"
  /\ data = 0
  /\ it = 0
  /\ failedTransmissions = <<>>
  /\ initialSize = 0
  /\ success = FALSE
  /\ retryCount = 0
  /\ retval = FALSE
  /\ produced = 0
  /\ responses = <<>>
  /\ delays = <<>>
  /\ okCount = [r \in Readings |-> 0]
  /\ evicted = {}
  /\ startBuf = <<>>
  /\ drainResults = <<>>
  /\ posted = <<>>
  /\ bufBefore = <<>>
  /\ recovered = {}
  /\ allOk = TRUE
  /\ tick = "none"
  /\ tickPosts = 0
  /\ made = <<>>
  /\ lastSendTime = 0
  /\ sinceSend = 0
  /\ gap = 0
  /\ gate = "none"
  /\ ntpConfigured = FALSE
  /\ ntpOutcome = "none"
  /\ synced = FALSE
  /\ timestampFrom = "none"

Init == InitCommon /\ inLoop = TRUE /\ PowerMonitorInit /\ AiProcessorInit

Next ==
  \/ LoopSkip
  \/ LoopOffline
  \/ LoopDrain
  \/ LoopDirect
  \/ Attempt
  \/ DrainNext
  \/ DrainLast
  \/ DirectReturn
  \/ WifiGotIp
  \/ WifiDisconnected

\* The main application: loop() and the WiFi event handler.
Spec == Init /\ [][Next]_vars

InitDM == InitCommon /\ inLoop = FALSE /\ PowerMonitorInit /\ AiProcessorInit

NextDM ==
  \/ ApiBufferData
  \/ ApiDrainEmpty
  \/ ApiDrain
  \/ ApiSendData
  \/ Attempt
  \/ DrainNext
  \/ ApiDrainLast
  \/ ApiSendReturn

\* DataManager alone, its public methods called in any order.
SpecDM == InitDM /\ [][NextDM]_vars

InitPM == InitCommon /\ inLoop = FALSE /\ PowerMonitorInit /\ AiProcessorInit

NextPM ==
  \/ PMBegin
  \/ PMUpdate
  \/ PMSetVoltage

\* PowerMonitor alone: begin, then update and setVoltage in any order,
\* the clock advancing (and wrapping around) between the calls.
SpecPM == InitPM /\ [][NextPM]_vars

InitRMS ==
  /\ InitCommon
  /\ inLoop = FALSE
  /\ AiProcessorInit
  /\ samples \in [1..SAMPLES_PER_CYCLE -> AdcValues]
  /\ calibrationFactor \in CalFactors
  /\ currentRMS = 0
  /\ mainVoltage = MAINS_VOLTAGE
  /\ powerWatts = 0
  /\ energyKwh = 0
  /\ lastEnergyCalcTime = 0
  /\ millis = 0
  /\ pmOp = "input"
  /\ prevEnergy = 0
  /\ prevLast = 0
  /\ pmUpdates = 0
  /\ rawCurrent = 0

NextRMS == RmsApply

\* The current of one measurement, for every sample sequence and every
\* calibration factor.
SpecRMS == InitRMS /\ [][NextRMS]_vars

InitCalc ==
  /\ InitCommon
  /\ inLoop = FALSE
  /\ AiProcessorInit
  /\ rawCurrent \in MeanSquares
  /\ calibrationFactor \in CalcFactors
  /\ mainVoltage \in CalcVoltages
  /\ samples = <<>>
  /\ currentRMS = 0
  /\ powerWatts = 0
  /\ energyKwh = 0
  /\ lastEnergyCalcTime = 0
  /\ millis = 0
  /\ pmOp = "meanSquared"
  /\ prevEnergy = 0
  /\ prevLast = 0
  /\ pmUpdates = 0

NextCalc == CalcApply

\* Current and power of one measurement, for every mean square, every
\* calibration factor and every configured voltage.
SpecCalc == InitCalc /\ [][NextCalc]_vars

InitAI == InitCommon /\ inLoop = FALSE /\ PowerMonitorInit /\ AiProcessorInit

NextAI ==
  \/ AiCycle
  \/ AiAnalyzeTrend

\* AiProcessor as loop() drives it: cycles and trend analyses in any order.
SpecAI == InitAI /\ [][NextAI]_vars

NextApp ==
  \/ LoopSkip
  \/ AppOffline
  \/ AppDrain
  \/ AppDirect
  \/ AppTrend
  \/ Attempt
  \/ DrainNext
  \/ DrainLast
  \/ DirectReturn
  \/ WifiGotIp
  \/ WifiDisconnected

\* The main application with the measurement of every cycle.
SpecApp == Init /\ [][NextApp]_vars

\* Number of cycles run on a drawn history.
MaxDetect == 2

\* Powers of the drawn history, and of the readings evaluated against it:
\* for the history 0, 5, 10 (mean 5, standard deviation 5) the readings 4
\* and 6 deviate by the threshold exactly, 3 and 7 by more.
HistPowers == {0, 5, 10}

DetectPowers == {0, 3, 4, 5, 6, 7, 10}

\* The AiProcessor after its first MIN_HISTORY cycles, for every history
\* of that length.
InitDetect ==
  /\ InitCommon
  /\ inLoop = FALSE
  /\ PowerMonitorInit
  /\ \E h \in [1..MIN_HISTORY -> HistPowers] :
       LET hist == [i \in 1..MIN_HISTORY |-> [timestamp |-> i, power |-> h[i]]]
       IN /\ dataHistory = hist
          /\ passed = hist
          /\ seen = SubSeq(hist, 1, MIN_HISTORY - 1)
          /\ powerPrediction = updatePrediction(hist, <<0, 1>>)
  /\ anomaly = FALSE
  /\ flags = [i \in 1..MIN_HISTORY |-> FALSE]
  /\ trend = [outcome |-> "none", percent |-> NoPercent]
  /\ aiOp = "cycle"

\* loop(), a further cycle with a reading of power p.
DetectCycle ==
  /\ Len(passed) < MIN_HISTORY + MaxDetect
  /\ \E p \in DetectPowers : AiProcess([timestamp |-> Len(passed) + 1, power |-> p])
  /\ UNCHANGED <<deliveryVars, powerVars, made>>
  /\ UNCHANGED <<gateVars, ntpVars>>

NextDetect == DetectCycle

\* detectAnomaly applied to the readings of further cycles, for every
\* history of MIN_HISTORY entries.
SpecDetect == InitDetect /\ [][NextDetect]_vars

\* Powers of the drawn full windows, in watts: 95 and 105 are 5 percent
\* off 100.
TrendPowers == {0, 95, 100, 105, 200}

\* The full window whose halves are four readings of one power and a
\* fifth of another: a, a, a, a, b, c, c, c, c, e.
TrendWindow(a, b, c, e) ==
  LET half == TREND_WINDOW_SIZE \div 2
  IN [i \in 1..TREND_WINDOW_SIZE |->
        [timestamp |-> i,
         power |-> IF i < half THEN a
                   ELSE IF i = half THEN b
                   ELSE IF i < TREND_WINDOW_SIZE THEN c
                   ELSE e]]

\* The anomaly flags of the readings of w, each evaluated against the
\* readings before it.
FlagsOf(w) ==
  [i \in 1..Len(w) |-> detectAnomaly(SubSeq(w, 1, i - 1), w[i])]

\* The AiProcessor after TREND_WINDOW_SIZE cycles, for every drawn window.
InitTrend ==
  /\ InitCommon
  /\ inLoop = FALSE
  /\ PowerMonitorInit
  /\ \E a \in TrendPowers, b \in TrendPowers, c \in TrendPowers, e \in TrendPowers :
       LET w == TrendWindow(a, b, c, e)
       IN /\ dataHistory = w
          /\ passed = w
          /\ seen = SubSeq(w, 1, Len(w) - 1)
          /\ powerPrediction = updatePrediction(w, <<0, 1>>)
          /\ flags = FlagsOf(w)
          /\ anomaly = FlagsOf(w)[Len(w)]
  /\ trend = [outcome |-> "none", percent |-> NoPercent]
  /\ aiOp = "cycle"

NextTrend == AiAnalyzeTrend

\* analyzeTrend applied to every drawn full window.
SpecTrend == InitTrend /\ [][NextTrend]_vars

NextNet ==
  \/ NetUpdate
  \/ NetGetTimestamp
  \/ WifiGotIp
  \/ WifiDisconnected

\* NetworkManager: update and getTimestamp called by loop(), the WiFi
\* events in between.
SpecNet == Init /\ [][NextNet]_vars

NextGate ==
  \/ GateLoop
  \/ WifiGotIp
  \/ WifiDisconnected

\* The gate of loop() over iterations of any duration, the counter
\* wrapping around.
SpecGate == Init /\ [][NextGate]_vars

\* ---------------------------------------------------------------- properties

Last(seq) == seq[Len(seq)]

IsPrefix(a, b) == Len(a) <= Len(b) /\ \A i \in 1..Len(a) : a[i] = b[i]

\* The positions of the responses that are not the OK status.
FailedAttempts == {i \in 1..Len(responses) : responses[i] # HTTP_CODE_OK}

\* A call of bufferData has just returned.
JustBuffered == pc = "idle" /\ tick \in {"buffered", "offline", "failed"}

\* A call of sendBufferedData has returned and nothing has touched the buffer since.
JustDrained ==
  \/ pc = "idle" /\ tick = "drained"
  \/ caller = "direct" /\ drainResults # <<>>

\* C1: whatever bufferData and sendBufferedData calls were made, with
\* whatever send outcomes, the delivery buffer never holds more than
\* DATA_BUFFER_SIZE readings.
C1_BufferBounded == Len(dataBuffer) <= DATA_BUFFER_SIZE

C1_Witness ==
  /\ JustBuffered
  /\ Len(dataBuffer) = DATA_BUFFER_SIZE
  /\ evicted # {}
  /\ drainResults # <<>>

\* C2: bufferData on a buffer that holds DATA_BUFFER_SIZE readings removes
\* exactly the oldest one, appends the new reading at the back, keeps the
\* others in order and leaves the size at DATA_BUFFER_SIZE; on a buffer with
\* fewer readings it appends and removes nothing.
C2_EvictOldest ==
  JustBuffered =>
    IF Len(bufBefore) = DATA_BUFFER_SIZE
      THEN /\ Len(dataBuffer) = DATA_BUFFER_SIZE
           /\ Last(dataBuffer) = data
           /\ \A i \in 1..(DATA_BUFFER_SIZE - 1) : dataBuffer[i] = bufBefore[i + 1]
           /\ bufBefore[1] \notin Range(dataBuffer)
           /\ bufBefore[1] \in evicted
      ELSE /\ Len(bufBefore) < DATA_BUFFER_SIZE
           /\ Len(dataBuffer) = Len(bufBefore) + 1
           /\ Last(dataBuffer) = data
           /\ \A i \in 1..Len(bufBefore) : dataBuffer[i] = bufBefore[i]
           /\ Range(bufBefore) \cap evicted = {}

C2_Witness ==
  /\ pc = "idle"
  /\ tick = "buffered"
  /\ Len(bufBefore) = DATA_BUFFER_SIZE
  /\ Last(dataBuffer) = data

\* C3: a buffered reading whose send is refused twice and accepted at the
\* third attempt is sent in buffer (FIFO) order, is accepted by the collector
\* exactly once, and is no longer in the buffer once the drain has returned.
C3_FailFailOkDelivered ==
  /\ caller = "drain" => posted = SubSeq(dataBuffer, 1, it)
  /\ (pc = "ret" /\ caller = "drain" /\ FailFailOk(responses)) =>
        success /\ okCount[dataBuffer[it]] = 1
  /\ \A r \in recovered :
        /\ okCount[r] = 1
        /\ caller # "drain" => r \notin Range(dataBuffer)

C3_Witness ==
  /\ pc = "idle"
  /\ Len(startBuf) >= 2
  /\ startBuf[2] \in recovered
  /\ startBuf[2] \notin Range(dataBuffer)

\* C4: when sendBufferedData has returned, the buffer is exactly the
\* readings it held before the call whose send failed, in their original
\* order: the k-th reading of the buffer is the k-th one that failed.
C4_DrainKeepsFailedInOrder ==
  JustDrained =>
    LET failedAt == {i \in 1..Len(startBuf) : ~drainResults[i]}
    IN /\ Len(drainResults) = Len(startBuf)
       /\ Len(dataBuffer) = Cardinality(failedAt)
       /\ \A k \in 1..Len(dataBuffer) :
            \E i \in failedAt :
              /\ Cardinality({j \in failedAt : j < i}) = k - 1
              /\ dataBuffer[k] = startBuf[i]

C4_Witness ==
  /\ pc = "idle"
  /\ tick = "drained"
  /\ Len(dataBuffer) >= 2
  /\ \E i \in 1..Len(drainResults) : drainResults[i]

\* C5 as stated: on every tick, the readings buffered at its start are sent
\* first and then the new reading is sent.
C5_Original ==
  (pc = "idle" /\ tick \in {"offline", "sent", "failed"}) =>
     posted = startBuf \o <<data>>

\* C5, amended: on every tick in which isConnected() is true the readings
\* buffered at its start are sent first, in order, and then the new reading;
\* sends are only made in such ticks, and a tick without connectivity makes
\* no send at all.
C5_DrainThenDirect ==
  /\ pc # "idle" =>
       /\ connected
       /\ posted # <<>>
       /\ IsPrefix(posted, startBuf \o <<data>>)
       /\ Sending = Last(posted)
  /\ (pc = "idle" /\ tick \in {"sent", "failed"}) => posted = startBuf \o <<data>>
  /\ (pc = "idle" /\ tick = "offline") => posted = <<>>

C5_Witness ==
  /\ pc = "idle"
  /\ tick \in {"sent", "failed"}
  /\ Len(startBuf) >= 2
  /\ posted = startBuf \o <<data>>

\* C6: a send makes at least one and at most MAX_RETRY_ATTEMPTS POSTs, stops
\* at the first accepted one, returns true iff one was accepted, and after
\* its i-th failed POST waits RETRY_DELAY_MS * i, except after the last
\* POST it is allowed.
C6_BoundedRetries ==
  /\ Len(responses) <= MAX_RETRY_ATTEMPTS
  /\ pc = "ret" => Len(responses) >= 1
  /\ \A i \in 1..(Len(responses) - 1) : responses[i] # HTTP_CODE_OK
  /\ pc = "ret" => (success <=> \E i \in 1..Len(responses) : responses[i] = HTTP_CODE_OK)
  /\ pc = "post" => ~success /\ Len(responses) < MAX_RETRY_ATTEMPTS
  /\ Len(delays) = IF Cardinality(FailedAttempts) = MAX_RETRY_ATTEMPTS
                     THEN MAX_RETRY_ATTEMPTS - 1
                     ELSE Cardinality(FailedAttempts)
  /\ \A i \in 1..Len(delays) : delays[i] = RETRY_DELAY_MS * i
  /\ \A i \in 1..(Len(delays) - 1) : delays[i] < delays[i + 1]

C6_Witness ==
  /\ pc = "ret"
  /\ ~success
  /\ Len(responses) = MAX_RETRY_ATTEMPTS
  /\ delays = <<RETRY_DELAY_MS, 2 * RETRY_DELAY_MS>>

\* C7: an attempt is a success only when the response is HTTP_CODE_OK; every
\* other response, positive or not, is a failure, and a failure is followed
\* by another attempt as long as fewer than MAX_RETRY_ATTEMPTS have failed.
C7_OnlyOkSucceeds ==
  /\ retryCount = Cardinality(FailedAttempts)
  /\ pc = "ret" => (success <=> Last(responses) = HTTP_CODE_OK)
  /\ (pc = "ret" /\ ~success) => retryCount = MAX_RETRY_ATTEMPTS
  /\ (pc # "idle" /\ responses # <<>> /\ Last(responses) # HTTP_CODE_OK
        /\ Len(responses) < MAX_RETRY_ATTEMPTS) => pc = "post"

C7_Witness ==
  /\ pc = "post"
  /\ Len(responses) = 2
  /\ \E i \in 1..2 : responses[i] > 0
  /\ \E i \in 1..2 : responses[i] <= 0

\* C8: when the direct send of the new reading has failed after all its
\* attempts, the next step of loop() puts that reading at the back of the
\* buffer, in the same tick, and loop() is back at its top.
C8_FailedDirectIsBuffered ==
  [][(pc = "ret" /\ caller = "direct" /\ ~success /\ pc' # pc) =>
       /\ Len(responses) = MAX_RETRY_ATTEMPTS
       /\ pc' = "idle"
       /\ inLoop'
       /\ produced' = produced
       /\ dataBuffer' # <<>>
       /\ Last(dataBuffer') = data
       /\ okCount'[data] = 0]_vars

C8_Witness ==
  /\ pc = "idle"
  /\ tick = "failed"
  /\ Len(bufBefore) = DATA_BUFFER_SIZE
  /\ Last(dataBuffer) = data

\* The place of reading r in the per-reading state machine.
Status(r) ==
  IF r > produced THEN "none"
  ELSE IF okCount[r] > 0 THEN "Delivered"
  ELSE IF r \in evicted THEN "Evicted"
  ELSE IF pc # "idle" /\ Sending = r
    THEN (IF responses = <<>> THEN "Sending" ELSE "Retrying")
  ELSE IF r \in Range(dataBuffer) THEN "Buffered"
  ELSE IF pc # "idle" /\ r = data THEN "Pending"
  ELSE "Lost"

\* The transitions of the state machine Pending -> Sending ->
\* {Delivered | Retrying(count) -> ... -> Buffered}, with Buffered
\* re-entering Sending or ending in eviction.  A reading is created Pending;
\* when loop() sends it at once it is first seen Sending.
MachineSteps ==
  { <<"none", "Pending">>, <<"none", "Sending">>, <<"Pending", "Sending">>,
    <<"Sending", "Delivered">>, <<"Sending", "Retrying">>,
    <<"Retrying", "Retrying">>, <<"Retrying", "Delivered">>,
    <<"Retrying", "Buffered">>, <<"Buffered", "Sending">>,
    <<"Buffered", "Evicted">> }

\* A step in which every reading moves along the transitions in steps (or
\* stays where it is), counts at most MAX_RETRY_ATTEMPTS failures, is
\* buffered after a send only when all attempts failed, is never POSTed
\* once delivered, and is re-sent from the buffer at most once per tick and
\* only if it was buffered when the tick began.
LifecycleStep(steps) ==
  /\ retryCount' <= MAX_RETRY_ATTEMPTS
  /\ \A r \in Readings :
       /\ Status(r) # Status(r)' => <<Status(r), Status(r)'>> \in steps
       /\ (Status(r) = "Retrying" /\ Status(r)' = "Buffered") =>
             retryCount = MAX_RETRY_ATTEMPTS
       /\ (Status(r) = "Buffered" /\ Status(r)' = "Sending") =>
             /\ r < data'
             /\ r \in Range(startBuf')
             /\ Cardinality({i \in 1..Len(posted') : posted'[i] = r}) = 1
       /\ okCount'[r] <= 1
       /\ (okCount[r] = 1 /\ pc' = "post") => Sending' # r
       /\ (okCount'[r] = 1 /\ caller' # "drain") => r \notin Range(dataBuffer')
       /\ Status(r)' # "Lost"

\* C9 as stated: every reading follows Pending -> Sending -> {Delivered |
\* Retrying(count) -> ... -> Buffered} with count at most
\* MAX_RETRY_ATTEMPTS, Delivered is terminal, and a Buffered reading is
\* re-sent only on a later tick and leaves Buffered only by a successful send
\* or by eviction.
C9_Original == [][LifecycleStep(MachineSteps)]_vars

\* C9, amended: as stated, except that a reading produced on a tick without
\* connectivity goes from Pending to Buffered without being sent.
C9_ReadingLifecycle ==
  [][LifecycleStep(MachineSteps \cup {<<"none", "Buffered">>})]_vars

C9_Witness ==
  /\ pc = "idle"
  /\ tick = "failed"
  /\ recovered # {}
  /\ \E r \in Range(dataBuffer) : r < data /\ Status(r) = "Buffered"
  /\ Status(data) = "Buffered"

\* C10: a reading produced on a tick without connectivity ends the tick at
\* the back of the buffer, nothing is sent and the readings buffered before
\* stay buffered unless evicted by overflow; and a connected tick in which
\* every POST is accepted delivers every buffered reading and the new one,
\* each exactly once, and ends with an empty buffer.
C10_BufferThenRecover ==
  /\ (pc = "idle" /\ tick = "offline") =>
        /\ dataBuffer # <<>>
        /\ Last(dataBuffer) = data
        /\ okCount[data] = 0
        /\ posted = <<>>
        /\ \A r \in Range(startBuf) : r \in Range(dataBuffer) \/ r \in evicted
        /\ IsPrefix(SubSeq(startBuf, Len(startBuf) - Len(dataBuffer) + 2, Len(startBuf)),
                    dataBuffer)
  /\ (pc = "idle" /\ tick \in {"sent", "failed"} /\ allOk) =>
        /\ dataBuffer = <<>>
        /\ okCount[data] = 1
        /\ \A r \in Range(startBuf) : okCount[r] = 1

C10_Witness ==
  /\ pc = "idle"
  /\ tick = "sent"
  /\ allOk
  /\ Len(startBuf) >= 2
  /\ dataBuffer = <<>>
  /\ \A r \in Range(startBuf) : okCount[r] = 1

\* C11: an update that finds millis() equal to or earlier than
\* lastEnergyCalcTime skips the energy increment: the cumulative energy and
\* lastEnergyCalcTime stay as they were.
C11_SkipsWhenNotLater ==
  (pmOp = "update" /\ millis <= prevLast) =>
     /\ energyKwh = prevEnergy
     /\ lastEnergyCalcTime = prevLast

\* C12: while the power is not negative, the cumulative energy after an
\* update is at least what it was before the update.
C12_EnergyNonDecreasing ==
  (pmOp = "update" /\ powerWatts >= 0) => energyKwh >= prevEnergy

C12_Witness ==
  /\ pmOp = "update"
  /\ powerWatts >= 0
  /\ prevEnergy > 0
  /\ energyKwh > prevEnergy
  /\ pmUpdates >= 3

\* C13: calculateRMSCurrent returns 0 when the calibrated current is below
\* the noise floor of 0.05 A, and the calibrated current itself when it is
\* at or above the floor.
C13_NoiseFloor ==
  pmOp = "output" =>
    LET calibrated == CalibratedCurrent(readCurrentSensor(samples), calibrationFactor)
    IN /\ calibrated < NOISE_FLOOR => currentRMS = 0
       /\ calibrated >= NOISE_FLOOR => currentRMS = calibrated

C13_Witness ==
  /\ pmOp = "output"
  /\ CalibratedCurrent(readCurrentSensor(samples), calibrationFactor) = NOISE_FLOOR
  /\ currentRMS = NOISE_FLOOR

\* C14: the current held by PowerMonitor is never negative, whatever the
\* samples and the calibration factor.
C14_CurrentNonNegative == currentRMS >= 0

C14_Witness ==
  /\ pmOp = "output"
  /\ calibrationFactor < 0
  /\ CalibratedCurrent(readCurrentSensor(samples), calibrationFactor) < -NOISE_FLOOR
  /\ currentRMS = 0

Min(a, b) == IF a < b THEN a ELSE b

\* The last k elements of seq.
MostRecent(seq, k) == SubSeq(seq, Len(seq) - k + 1, Len(seq))

\* C15: a reading evaluated against a history of fewer than 3 entries is
\* not flagged, so the first three readings are never flagged.
C15_NoFlagBelowFloor ==
  /\ (passed # <<>> /\ Len(seen) < MIN_HISTORY) => anomaly = FALSE
  /\ \A i \in 1..Len(flags) : i <= MIN_HISTORY => flags[i] = FALSE

C15_Witness ==
  /\ aiOp = "cycle"
  /\ Len(flags) = MIN_HISTORY
  /\ Len(seen) = MIN_HISTORY - 1
  /\ seen[1].power # seen[2].power
  /\ anomaly = FALSE

\* C16 as stated: with insufficient history the anomaly result differs from
\* the result of a reading that is not anomalous, and the trend result is
\* none of the classifications.
C16_Original ==
  /\ (passed # <<>> /\ Len(seen) < MIN_HISTORY) => anomaly # FALSE
  /\ (aiOp = "analyzeTrend" /\ Len(dataHistory) < TREND_WINDOW_SIZE) =>
        trend.outcome \notin Classifications

\* C16, amended: with fewer than N entries analyzeTrend reports "Not enough
\* data", which is none of the classifications, while a full window gets a
\* classification; with fewer than 3 entries detectAnomaly returns false,
\* the result of a reading that is not anomalous.
C16_NotReady ==
  /\ (aiOp = "analyzeTrend" /\ Len(dataHistory) < TREND_WINDOW_SIZE) =>
        /\ trend.outcome = "Not enough data"
        /\ trend.outcome \notin Classifications
  /\ (aiOp = "analyzeTrend" /\ Len(dataHistory) = TREND_WINDOW_SIZE) =>
        trend.outcome \in Classifications
  /\ (passed # <<>> /\ Len(seen) < MIN_HISTORY) => anomaly = FALSE

C16_Witness ==
  /\ aiOp = "analyzeTrend"
  /\ Len(dataHistory) = TREND_WINDOW_SIZE - 1
  /\ trend.outcome = "Not enough data"
  /\ Len(seen) = TREND_WINDOW_SIZE - 2

\* C17: analyzeTrend reports insufficient data for a window of fewer than
\* N entries, and for a window of N entries one classification whose
\* percentage is finite.
C17_DefinedClassification ==
  aiOp = "analyzeTrend" =>
    IF Len(dataHistory) < TREND_WINDOW_SIZE
    THEN trend.outcome = "Not enough data"
    ELSE /\ trend.outcome \in Classifications
         /\ trend.percent.kind \in {"none", "finite"}

\* C18: for a full window whose first half has mean power 0, analyzeTrend
\* reports none of stable, increasing and decreasing.
C18_ExplicitPolicy ==
  (/\ aiOp = "analyzeTrend"
   /\ Len(dataHistory) = TREND_WINDOW_SIZE
   /\ SumPower(dataHistory, 1, TREND_WINDOW_SIZE \div 2) = 0) =>
     trend.outcome \notin Classifications

\* C19: the history holds at most N readings and is the most recent
\* min(k, N) of the k readings passed to update, oldest first; a reading
\* arriving at a full window evicts the oldest one only.
C19_WindowIsMostRecent ==
  /\ Len(dataHistory) <= TREND_WINDOW_SIZE
  /\ dataHistory = MostRecent(passed, Min(Len(passed), TREND_WINDOW_SIZE))
  /\ (passed # <<>> /\ Len(seen) = TREND_WINDOW_SIZE) =>
        dataHistory = Append(Tail(seen), Last(passed))

C19_Witness ==
  /\ aiOp = "cycle"
  /\ Len(passed) = TREND_WINDOW_SIZE + 2
  /\ Len(seen) = TREND_WINDOW_SIZE
  /\ seen[1] = passed[2]
  /\ dataHistory[1] = passed[3]

\* C20 as stated: the window the anomaly flag of a reading is computed
\* against already contains that reading.
C20_Original ==
  passed # <<>> =>
    /\ Last(passed) \in Range(seen)
    /\ anomaly = detectAnomaly(seen, Last(passed))

\* C20, amended: the anomaly flag of a reading is computed against the
\* window of the readings before it, which does not contain the reading;
\* the reading is appended to the window after the evaluation.
C20_EvaluatedBeforeAppend ==
  passed # <<>> =>
    /\ Last(passed) \notin Range(seen)
    /\ seen = MostRecent(SubSeq(passed, 1, Len(passed) - 1),
                         Min(Len(passed) - 1, TREND_WINDOW_SIZE))
    /\ anomaly = detectAnomaly(seen, Last(passed))
    /\ dataHistory = update(seen, Last(passed))

C20_Witness ==
  /\ aiOp = "cycle"
  /\ Len(seen) = TREND_WINDOW_SIZE
  /\ anomaly = TRUE
  /\ detectAnomaly(dataHistory, Last(passed)) = FALSE

\* C21 as stated: the POSTs issued in one cadence tick are at most K,
\* however many readings are buffered.
C21_Original == inLoop => tickPosts <= MAX_RETRY_ATTEMPTS

\* C21, amended: every send of a tick issues at most K POSTs, and a tick
\* sends each reading that was buffered at its start and the new reading,
\* so the POSTs of a tick are at most K for every send started, at most
\* K * (buffered readings + 1) in all.
C21_PostsPerTick ==
  inLoop =>
    /\ Len(responses) <= MAX_RETRY_ATTEMPTS
    /\ tickPosts <= MAX_RETRY_ATTEMPTS * Len(posted)
    /\ Len(posted) <= Len(startBuf) + 1
    /\ tickPosts <= MAX_RETRY_ATTEMPTS * (Len(startBuf) + 1)

C21_Witness ==
  /\ inLoop
  /\ pc = "idle"
  /\ tick = "failed"
  /\ Len(startBuf) = DATA_BUFFER_SIZE
  /\ tickPosts = MAX_RETRY_ATTEMPTS * (DATA_BUFFER_SIZE + 1)

\* C22: a step of the WiFi event handler, wherever it falls in a cycle,
\* changes the static connectivity flag only: the history window, the
\* delivery buffer, the accumulated energy, the configured voltage and
\* everything else loop() works with stay as they are.
C22_HandlerTouchesFlagOnly ==
  [][s_connected' # s_connected =>
       /\ UNCHANGED <<dataHistory, dataBuffer, energyKwh, mainVoltage>>
       /\ UNCHANGED <<connected, pc, caller, inLoop, data, drainVars, sendVars,
                      retval, produced, okCount, evicted, startBuf, drainResults,
                      posted, bufBefore, recovered, allOk, tick, tickPosts>>
       /\ UNCHANGED measureVars]_vars

C22_Witness ==
  /\ pc = "post"
  /\ caller = "drain"
  /\ connected
  /\ ~s_connected
  /\ Len(dataBuffer) >= 2
  /\ Len(dataHistory) >= 3
  /\ energyKwh > 0

C24_ReadOnly ==
  [][/\ aiOp' = "analyzeTrend" => UNCHANGED <<dataHistory, powerPrediction>>
     /\ passed' # passed =>
          /\ seen' = dataHistory
          /\ dataHistory' = update(dataHistory, Last(passed'))
          /\ powerPrediction' = updatePrediction(dataHistory', powerPrediction)]_vars

C24_Witness ==
  /\ aiOp = "analyzeTrend"
  /\ Len(dataHistory) = TREND_WINDOW_SIZE
  /\ trend.outcome \in Classifications
  /\ anomaly = TRUE
  /\ powerPrediction[1] > 0

\* Sum over the history of (n * power - sum of the powers) squared: n
\* squared times the sum of the squared differences from the mean.
RECURSIVE SqDiff(_, _, _)
SqDiff(hist, sum, i) ==
  IF i = 0 THEN 0
  ELSE LET diff == Len(hist) * hist[i].power - sum
       IN SqDiff(hist, sum, i - 1) + diff * diff

\* C25: with at least 3 history entries the reading is flagged iff
\* |power - mean| > 0.2 * stddev, mean and stddev (divisor n - 1) taken
\* over the powers of the window; for a constant window the reading is
\* flagged iff its power differs from the constant.
C25_AnomalyRule ==
  (passed # <<>> /\ Len(seen) >= MIN_HISTORY) =>
    LET n == Len(seen)
        sum == SumPower(seen, 1, n)
        dev == n * Last(passed).power - sum
    IN /\ anomaly = (25 * (n - 1) * dev * dev > SqDiff(seen, sum, n))
       /\ (\A i \in 1..n : seen[i].power = seen[1].power) =>
             (anomaly = (Last(passed).power # seen[1].power))

C25_Witness ==
  /\ Len(passed) = MIN_HISTORY + 1
  /\ seen[1].power = 0
  /\ seen[2].power = 5
  /\ seen[3].power = 10
  /\ Last(passed).power = 4
  /\ anomaly = FALSE

\* C26: for a full window whose first half has a mean other than 0, with
\* p the change of the second-half mean relative to the first-half mean in
\* percent: |p| < 5 gives stable; otherwise p > 0 gives increasing with
\* the percentage p and p < 0 gives decreasing with the percentage -p.
C26_TrendRule ==
  LET half == TREND_WINDOW_SIZE \div 2
      first == SumPower(dataHistory, 1, half)
      last == SumPower(dataHistory, half + 1, TREND_WINDOW_SIZE)
  IN (aiOp = "analyzeTrend" /\ Len(dataHistory) = TREND_WINDOW_SIZE /\ first > 0) =>
       /\ Abs(last - first) * 100 < 5 * first => trend.outcome = "Stable usage"
       /\ (Abs(last - first) * 100 >= 5 * first /\ last > first) =>
             /\ trend.outcome = "Increasing"
             /\ trend.percent.kind = "finite"
             /\ trend.percent.num * first = (last - first) * 100 * trend.percent.den
       /\ (Abs(last - first) * 100 >= 5 * first /\ last < first) =>
             /\ trend.outcome = "Decreasing"
             /\ trend.percent.kind = "finite"
             /\ trend.percent.num * first = (first - last) * 100 * trend.percent.den

C26_Witness ==
  /\ aiOp = "analyzeTrend"
  /\ \A i \in 1..TREND_WINDOW_SIZE :
       dataHistory[i].power = IF i <= TREND_WINDOW_SIZE \div 2 THEN 100 ELSE 95
  /\ trend.outcome = "Decreasing"
  /\ trend.percent.num = 5 * trend.percent.den

\* C27: for the window 100, 100, 100, 100, 100, 200, 200, 200, 200, 200 W
\* the trend is increasing with a change of 100 percent.
C27_Example ==
  (/\ aiOp = "analyzeTrend"
   /\ Len(dataHistory) = 10
   /\ \A i \in 1..10 : dataHistory[i].power = IF i <= 5 THEN 100 ELSE 200) =>
     /\ trend.outcome = "Increasing"
     /\ trend.percent.kind = "finite"
     /\ trend.percent.num = 100 * trend.percent.den

C27_Witness ==
  /\ aiOp = "analyzeTrend"
  /\ Len(dataHistory) = 10
  /\ \A i \in 1..10 : dataHistory[i].power = IF i <= 5 THEN 100 ELSE 200
  /\ trend.outcome = "Increasing"

\* Sum over the history of (2 x - (n - 1)) * power, x the position 0..n-1:
\* twice the sum of (x - mean of x) * power.
RECURSIVE CenteredXY(_, _)
CenteredXY(hist, i) ==
  IF i = 0 THEN 0
  ELSE CenteredXY(hist, i - 1) + (2 * (i - 1) - (Len(hist) - 1)) * hist[i].power

\* Sum of (2 x - (n - 1)) squared over the positions 0..n-1: four times
\* the sum of (x - mean of x) squared.
RECURSIVE CenteredXX(_, _)
CenteredXX(n, i) ==
  IF i = 0 THEN 0
  ELSE CenteredXX(n, i - 1) + (2 * (i - 1) - (n - 1)) * (2 * (i - 1) - (n - 1))

\* Equality of two fractions with numerators >= 0 and denominators > 0.
SameFraction(a, b) ==
  /\ a[1] \div a[2] = b[1] \div b[2]
  /\ (a[1] % a[2]) * b[2] = (b[1] % b[2]) * a[2]

\* C28: the stored prediction is never negative; with n >= 2 history
\* entries it is the value at index n of the least-squares line over the
\* positions 0..n-1 (mean power + slope * (n - mean position)), or 0 when
\* that value is negative.
C28_Prediction ==
  /\ powerPrediction[1] >= 0
  /\ powerPrediction[2] > 0
  /\ Len(dataHistory) >= 2 =>
       LET n == Len(dataHistory)
           sum == SumPower(dataHistory, 1, n)
           sxy == CenteredXY(dataHistory, n)
           sxx == CenteredXX(n, n)
           num == sum * sxx + n * (n + 1) * sxy
       IN IF num < 0 THEN powerPrediction[1] = 0
          ELSE SameFraction(powerPrediction, <<num, n * sxx>>)

C28_Witness ==
  /\ aiOp = "cycle"
  /\ Len(dataHistory) = 3
  /\ dataHistory[1].power > dataHistory[2].power
  /\ dataHistory[2].power = dataHistory[3].power
  /\ powerPrediction[1] = 0
  /\ seen # <<>>

\* C29: after an update whose clock delta d (current time minus
\* lastEnergyCalcTime, unsigned) is positive, the cumulative energy is what
\* it was plus the power of this cycle times d (power in microwatts and d
\* in milliseconds: 3.6e15 of these units are one kWh), and
\* lastEnergyCalcTime is the current time; the power of the cycle is the
\* current times the configured voltage.
C29_EnergyIncrement ==
  pmOp = "update" =>
    /\ powerWatts = currentRMS * mainVoltage
    /\ TimeDelta(millis, prevLast) > 0 =>
         /\ energyKwh = prevEnergy + powerWatts * TimeDelta(millis, prevLast)
         /\ lastEnergyCalcTime = millis

C29_Witness ==
  /\ pmOp = "update"
  /\ mainVoltage = 110
  /\ currentRMS = NOISE_FLOOR
  /\ millis < prevLast
  /\ prevEnergy > 0
  /\ energyKwh = prevEnergy + 110 * NOISE_FLOOR * (millis + ULONG_MOD - prevLast)
  /\ lastEnergyCalcTime = millis

Delivered(r) == okCount[r] > 0

\* Is the reading r in the delivery buffer?
Buffered(r) == r \in Range(dataBuffer)

\* The number of the three classes the reading r is in.
Classes(r) ==
  (IF Delivered(r) THEN 1 ELSE 0) + (IF Buffered(r) THEN 1 ELSE 0)
    + (IF r \in evicted THEN 1 ELSE 0)

\* C31: at the end of a tick of loop() every reading produced so far is
\* in exactly one of the classes delivered, buffered, evicted, and no
\* reading is in the buffer twice.
C31_ExactlyOneClass ==
  (inLoop /\ pc = "idle") =>
     /\ \A r \in 1..produced : Classes(r) = 1
     /\ Cardinality(Range(dataBuffer)) = Len(dataBuffer)

C31_Witness ==
  /\ inLoop
  /\ pc = "idle"
  /\ tick = "failed"
  /\ evicted # {}
  /\ \E r \in 1..produced : Delivered(r)
  /\ Len(dataBuffer) = DATA_BUFFER_SIZE
  /\ \A r \in 1..produced : Classes(r) = 1

\* Is the sequence of readings in production order?
InProductionOrder(seq) ==
  \A i, j \in 1..Len(seq) : i < j => seq[i] < seq[j]

\* C32: in every state of the main application the delivery buffer is in
\* production order, the oldest reading at the front, and every reading
\* evicted on overflow is older than every reading in the buffer.
C32_BufferInProductionOrder ==
  inLoop =>
    /\ InProductionOrder(dataBuffer)
    /\ \A e \in evicted : \A i \in 1..Len(dataBuffer) : e < dataBuffer[i]

C32_Witness ==
  /\ inLoop
  /\ evicted # {}
  /\ Len(dataBuffer) = DATA_BUFFER_SIZE
  /\ dataBuffer[2] > dataBuffer[1] + 1
  /\ \E r \in 1..produced : Delivered(r) /\ r > dataBuffer[1]
  /\ InProductionOrder(dataBuffer)

\* C33 as stated: whenever a POST for a reading has succeeded, no reading
\* produced earlier is waiting undelivered in the delivery buffer.
C33_Original ==
  (inLoop /\ pc = "ret" /\ success) =>
     \A i \in 1..Len(dataBuffer) :
        dataBuffer[i] < Sending => Delivered(dataBuffer[i])

\* The position of the reading r in the sequence seq (0: not in it).
PositionIn(seq, r) ==
  IF \E i \in 1..Len(seq) : seq[i] = r
    THEN CHOOSE i \in 1..Len(seq) : seq[i] = r
    ELSE 0

\* C33: the sends of a tick are started in production order, and whenever
\* a POST for a reading has succeeded, every reading produced earlier that
\* is still undelivered in the delivery buffer had its own send earlier
\* in the same tick, and that send failed.
C33_SendsInProductionOrder ==
  inLoop =>
    /\ InProductionOrder(posted)
    /\ (pc = "ret" /\ success) =>
         \A i \in 1..Len(dataBuffer) :
            (dataBuffer[i] < Sending /\ ~Delivered(dataBuffer[i])) =>
               /\ PositionIn(posted, dataBuffer[i]) > 0
               /\ PositionIn(posted, dataBuffer[i]) < PositionIn(posted, Sending)

C33_Witness ==
  /\ inLoop
  /\ pc = "ret"
  /\ success
  /\ caller = "drain"
  /\ it = 2
  /\ ~Delivered(dataBuffer[1])
  /\ posted = <<dataBuffer[1], dataBuffer[2]>>

\* Are all POSTs of the last tick of loop() over, the tick having found
\* isConnected() false?
OfflineTick == inLoop /\ tick = "offline"

\* C34: a tick of loop() in which isConnected() is false issues no POST,
\* neither for a buffered reading nor for the new one, and leaves the
\* buffer as it was at the start of the tick with the new reading
\* appended, less the oldest reading if the buffer was full.
C34_OfflineTick ==
  /\ (inLoop /\ ~connected) => pc = "idle"
  /\ OfflineTick =>
       /\ tickPosts = 0
       /\ posted = <<>>
       /\ dataBuffer = (IF Len(startBuf) < DATA_BUFFER_SIZE
                          THEN startBuf ELSE Tail(startBuf)) \o <<data>>
       /\ data = produced
       /\ \A r \in 1..produced : okCount[r] > 0 => r \notin Range(startBuf)

C34_Witness ==
  /\ OfflineTick
  /\ ~connected
  /\ Len(startBuf) = DATA_BUFFER_SIZE
  /\ startBuf[1] \in evicted
  /\ dataBuffer = Tail(startBuf) \o <<produced>>
  /\ tickPosts = 0

\* A step that changes what isConnected() returns is the
\* networkManager.update() at the start of an iteration of loop(), which
\* copies the static flag; a step of the event handler leaves it alone.
ConnectedChangesInUpdate ==
  /\ connected' # connected =>
       /\ pc = "idle"
       /\ connected' = s_connected
       /\ s_connected' = s_connected
  /\ s_connected' # s_connected => connected' = connected

\* Is the reading produced last delivered or in the buffer?
LastReadingKept == produced > 0 => Delivered(produced) \/ Buffered(produced)

\* C35: isConnected() changes its value only in NetworkManager::update(),
\* by copying the static flag of the event handler; an event between two
\* update() calls does not change it, and at the end of the iteration the
\* reading produced in it is delivered or buffered.
C35_ConnectivitySampledOnce ==
  /\ [][ConnectedChangesInUpdate]_vars
  /\ []((inLoop /\ pc = "idle") => LastReadingKept)

C35_Witness ==
  /\ inLoop
  /\ pc = "idle"
  /\ tick = "failed"
  /\ tickPosts = MAX_RETRY_ATTEMPTS
  /\ connected
  /\ ~s_connected
  /\ Buffered(produced)
  /\ produced = 1

\* C37: setVoltage(v) with v <= 0 leaves the configured voltage as it is,
\* the configured voltage is positive in every state, and the power
\* computed by PowerMonitor is never negative.
C37_VoltagePositive ==
  /\ \A v \in Voltages : v <= 0 => setVoltage(mainVoltage, v) = mainVoltage
  /\ mainVoltage > 0
  /\ powerWatts >= 0

C37_Witness ==
  /\ pmOp = "setVoltage"
  /\ mainVoltage = MAINS_VOLTAGE
  /\ pmUpdates >= 1
  /\ powerWatts > 0

\* C36: a cycle starts only when at least sendInterval milliseconds have
\* really passed since the start of the cycle before it (since the start
\* of the counter for the first cycle), also when the counter wrapped
\* around in between; and as long as less than a whole round of the
\* counter has passed, an iteration that starts no cycle came less than
\* sendInterval after the last start.
C36_GateAcrossWrap ==
  /\ gate = "cycle" => gap >= sendInterval
  /\ (gate = "skip" /\ sinceSend < ULONG_MOD) => sinceSend < sendInterval
  /\ gate = "cycle" => lastSendTime = millis

C36_Witness ==
  /\ gate = "cycle"
  /\ gap = sendInterval
  /\ lastSendTime < sendInterval - 1
  /\ lastSendTime > 0

\* C38: after a configureNTP call that failed to synchronise,
\* ntpConfigured is false (so that a later update() tries again), and
\* getTimestamp reads the system time only once a synchronisation has
\* succeeded.
C38_RetryAfterFailure ==
  /\ ntpOutcome = "failed" => ~ntpConfigured
  /\ timestampFrom = "time" => synced

TypeOK ==
  /\ s_connected \in BOOLEAN
  /\ connected \in BOOLEAN
  /\ pc \in {"idle", "post", "ret"}
  /\ caller \in {"none", "drain", "direct"}
  /\ produced \in 0..MaxReadings
  /\ retryCount \in 0..MAX_RETRY_ATTEMPTS
  /\ \A i \in 1..Len(dataBuffer) : dataBuffer[i] \in Readings
====
